---- MODULE Spec2Model ----
(***************************************************************************)
(* A model of agg (asciinema gif generator): the timeline operators of     *)
(* src/events.rs, the frame synthesizer of src/vt.rs and the pipeline that *)
(* run (src/lib.rs) builds from them.                                      *)
(*                                                                         *)
(* Timestamps are f64 seconds in the code.  They are modelled as exact     *)
(* rationals [n, d] in lowest terms (d > 0): f64 rounding, NaN and the     *)
(* infinities are outside the model.  A text is a sequence of tokens: a    *)
(* printable character or one terminal control sequence.                   *)
(***************************************************************************)
EXTENDS Integers, Sequences, FiniteSets, TLC

VARIABLES
    input,        \* the items of the upstream iterator, Result<OutputEvent> each
    pos,          \* how many items of input have been pulled so far
    header,       \* the recording's Header
    config,       \* Config; an operator on its own takes its argument from it
    idle,         \* limit_idle_time's captured prev_time and offset
    bat,          \* the Batch struct: prev_time, prev_data
    out,          \* the items the operator has emitted so far (run: the events Vec)
    nones,        \* how many times next() has returned None
    vt,           \* the terminal (vt::VT) that frames owns
    prev_cursor,  \* frames' prev_cursor
    fpos,         \* how many events frames has consumed
    frs,          \* the frames that frames has emitted
    collector,    \* the (index, timestamp) pairs handed to add_frame_rgba
    pc,           \* where run is
    pend,         \* history: the input events behind the pending batch
    folds,        \* history: per pulled item, what Batch::next did with it
    groups,       \* history: per item of out, the input events behind it
    flog,         \* history: per event fed to the terminal, what it reported
    th,           \* a theme definition, and what parsing it gave
    cast,         \* the recording: its first line and the lines after it
    rd,           \* the format reader: which parser read the header, prev_time
    sys,          \* what run finds on the machine: fonts, the encoder
    enc,          \* the encoder's two halves: the collector, the writer thread
    ret,          \* what run returned
    rend          \* the renderer: the call made of it, its glyph cache, the image

vars == <<input, pos, header, config, idle, bat, out, nones, vt, prev_cursor,
          fpos, frs, collector, pc, pend, folds, groups, flog, th, cast, rd,
          sys, enc, ret, rend>>

----------------------------------------------------------------------------
(* Bounds. *)

MaxLen == 3

MaxNone == 2

\* run: the events of the recording (run prepends one more)
MaxRunLen == 2

----------------------------------------------------------------------------
(* Exact rational arithmetic standing for f64. *)

Abs(x) == IF x < 0 THEN -x ELSE x

RECURSIVE Gcd(_, _)
Gcd(a, b) == IF b = 0 THEN a ELSE Gcd(b, a % b)

Rat(n, d) ==
    LET g == Gcd(Abs(n), d)
    IN  [n |-> n \div g, d |-> d \div g]

Zero == Rat(0, 1)

One == Rat(1, 1)

RAdd(a, b) == Rat(a.n * b.d + b.n * a.d, a.d * b.d)

RSub(a, b) == Rat(a.n * b.d - b.n * a.d, a.d * b.d)

RMul(a, b) == Rat(a.n * b.n, a.d * b.d)

\* a / b for b # 0
RDiv(a, b) ==
    IF b.n > 0 THEN Rat(a.n * b.d, a.d * b.n)
    ELSE Rat(-(a.n * b.d), a.d * (-b.n))

RLt(a, b) == a.n * b.d < b.n * a.d

RLe(a, b) == a.n * b.d <= b.n * a.d

----------------------------------------------------------------------------
(* Result<OutputEvent>: Ok((time, data)) or Err(e). *)

Ok(t, s) == [ok |-> TRUE, time |-> t, data |-> s, err |-> 0]

Err(e) == [ok |-> FALSE, time |-> Zero, data |-> <<>>, err |-> e]

\* Option<Item>::None, what next() returns at the end
None == [ok |-> FALSE, time |-> Zero, data |-> <<>>, err |-> -1]

\* Option<T>: the empty set is None, {v} is Some(v)
NoneOpt == {}

Some(v) == {v}

\* a.or(b)
OrOpt(a, b) == IF a # {} THEN a ELSE b

\* a.unwrap_or(d)
UnwrapOr(a, d) == IF a = {} THEN d ELSE CHOOSE v \in a : TRUE

\* All sequences over S of length at most n.
SeqsUpTo(S, n) == UNION {[1..k -> S] : k \in 0..n}

RECURSIVE ConcatData(_)
ConcatData(items) ==
    IF items = <<>> THEN <<>>
    ELSE (IF Head(items).ok THEN Head(items).data ELSE <<>>) \o ConcatData(Tail(items))

ErrorFree(items) == \A k \in 1..Len(items) : items[k].ok

----------------------------------------------------------------------------
(* Input domains. *)

TextA == <<"a">>

TextB == <<"b">>

\* The streams of at most MaxLen items: events with a time of T and a text of
\* X, and the error item Err(1).
Streams(T, X) == SeqsUpTo({Ok(t, x) : t \in T, x \in X} \cup {Err(1)}, MaxLen)

IdleTimes == {Zero, One, Rat(7, 2), Rat(4, 1), Rat(15, 2)}

\* tests::limit_idle_time (texts shortened to one token)
IdleExample ==
    <<Ok(Zero, TextA), Ok(One, TextB), Ok(Rat(7, 2), TextA),
      Ok(Rat(4, 1), TextB), Ok(Rat(15, 2), TextA)>>

Limits == {Rat(2, 1), Rat(1, 2)}

Speeds == {Rat(2, 1), Rat(1, 2), Rat(3, 1)}

\* DEFAULT_FPS_CAP, and a second cap
Caps == {30, 4}

----------------------------------------------------------------------------
(* limit_idle_time: the closure mapped over the events. *)

Idle0 == [prev_time |-> Zero, offset |-> Zero]

\* let delay = time - prev_time; let excess = delay - limit;
IdleExcess(time, prev, lim) == RSub(RSub(time, prev), lim)

IdleOffsetAssign(offset, excess) ==
    IF RLt(Zero, excess) THEN excess ELSE offset

\* if excess > 0.0 { offset += excess; }
IdleOffset(offset, excess) ==
    IF RLt(Zero, excess) THEN RAdd(offset, excess) ELSE offset

IdlePrevTimeShifted(time, offset) == RSub(time, offset)

\* prev_time = time;
IdlePrevTime(time, offset) == time

\* event.map(|(time, data)| ...): the closure's new state and the item it yields
IdleMap(st, item, lim) ==
    IF item.ok
    THEN LET off == IdleOffset(st.offset, IdleExcess(item.time, st.prev_time, lim))
         IN  [st  |-> [prev_time |-> IdlePrevTime(item.time, off), offset |-> off],
              item |-> Ok(RSub(item.time, off), item.data)]
    ELSE [st |-> st, item |-> item]

----------------------------------------------------------------------------
(* accelerate *)

ScaleMul(time, s) == RMul(time, s)

\* time / speed
Scale(time, s) == RDiv(time, s)

\* events.map(move |event| event.map(|(time, data)| (time / speed, data)))
AccelMap(item, s) ==
    IF item.ok THEN Ok(Scale(item.time, s), item.data) ELSE item

----------------------------------------------------------------------------
(* batch and Batch::next *)

\* max_frame_time: 1.0 / (fps_cap as f64)
MaxFrameTime(cap) == RDiv(One, Rat(cap, 1))

\* Batch { iter, prev_data: "".to_owned(), prev_time: 0.0, max_frame_time }
Bat0 == [prev_time |-> Zero, prev_data |-> <<>>]

FoldsWithinHalf(time, pt, mft) == RLt(RSub(time, pt), RDiv(mft, Rat(2, 1)))

\* if time - self.prev_time < self.max_frame_time
Folds(time, pt, mft) == RLt(RSub(time, pt), mft)

FoldIntoMovingStart(b, it) ==
    [prev_time |-> it.time, prev_data |-> b.prev_data \o it.data]

FoldIntoFront(b, it) == [b EXCEPT !.prev_data = it.data \o @]

\* self.prev_data.push_str(&data);
FoldInto(b, it) == [b EXCEPT !.prev_data = @ \o it.data]

FlushOnGapAlways(pt, pd) == TRUE

FlushOnGapNonEmpty(pt, pd) == pd # <<>>

\* else if !self.prev_data.is_empty() || self.prev_time == 0.0
FlushOnGap(pt, pd) == pd # <<>> \/ pt = Zero

FlushAtEndNever(pd) == FALSE

\* None => if !self.prev_data.is_empty()
FlushAtEnd(pd) == pd # <<>>

\* The history of the pending batch: the event that started it (0: none did,
\* it is the batch that batch() builds) and the events in it, in input order.
Pend0 == [starter |-> 0, members |-> <<>>]

\* One call of Batch::next with p items of src pulled so far, from the struct
\* b and the history h (pend, folds): the struct and the history it leaves,
\* the item it returns and the events behind that item.
RECURSIVE BatchCall(_, _, _, _, _)
BatchCall(src, p, b, mft, h) ==
    IF p >= Len(src)
    THEN \* None =>
         IF FlushAtEnd(b.prev_data)
         THEN [pos |-> p, bat |-> [b EXCEPT !.prev_data = <<>>],
               item |-> Ok(b.prev_time, b.prev_data), group |-> h.pend,
               pend |-> [h.pend EXCEPT !.members = <<>>], folds |-> h.folds]
         ELSE [pos |-> p, bat |-> b, item |-> None, group |-> h.pend,
               pend |-> h.pend, folds |-> h.folds]
    ELSE LET it == src[p + 1]
             started == [starter |-> p + 1, members |-> <<p + 1>>]
             seen(f) == Append(h.folds, [folded |-> f, starter |-> h.pend.starter])
         IN  IF ~it.ok
             THEN \* Some(Err(e)) => Some(Err(e))
                  [pos |-> p + 1, bat |-> b, item |-> it,
                   group |-> [starter |-> 0, members |-> <<p + 1>>],
                   pend |-> h.pend, folds |-> seen(FALSE)]
             ELSE IF Folds(it.time, b.prev_time, mft)
             THEN BatchCall(src, p + 1, FoldInto(b, it), mft,
                            [pend |-> [h.pend EXCEPT !.members = Append(@, p + 1)],
                             folds |-> seen(TRUE)])
             ELSE IF FlushOnGap(b.prev_time, b.prev_data)
             THEN [pos |-> p + 1,
                   bat |-> [prev_time |-> it.time, prev_data |-> it.data],
                   item |-> Ok(b.prev_time, b.prev_data), group |-> h.pend,
                   pend |-> started, folds |-> seen(FALSE)]
             ELSE BatchCall(src, p + 1,
                            [prev_time |-> it.time, prev_data |-> it.data], mft,
                            [pend |-> started, folds |-> seen(FALSE)])

----------------------------------------------------------------------------
(* Header and Config, and what run derives from them. *)

DEFAULT_FPS_CAP == 30

DEFAULT_LAST_FRAME_DURATION == Rat(3, 1)

DEFAULT_SPEED == One

DEFAULT_FONT_FAMILY ==
    "JetBrains Mono,Fira Code,SF Mono,Menlo,Consolas,DejaVu Sans Mono,Liberation Mono"

DEFAULT_IDLE_TIME_LIMIT == Rat(5, 1)

\* impl Default for Config (the fields the model reads)
Config0 ==
    [cols |-> NoneOpt, rows |-> NoneOpt,
     idle_time_limit |-> NoneOpt, speed |-> DEFAULT_SPEED,
     fps_cap |-> DEFAULT_FPS_CAP,
     last_frame_duration |-> DEFAULT_LAST_FRAME_DURATION,
     font_family |-> DEFAULT_FONT_FAMILY, theme |-> NoneOpt]

\* A header of 4 columns and 2 rows, the terminal of tests::frames
Header0 ==
    [term_cols |-> 4, term_rows |-> 2, term_theme |-> NoneOpt,
     idle_time_limit |-> NoneOpt]

\* (config.cols.unwrap_or(header.term_cols), config.rows.unwrap_or(header.term_rows))
TerminalSize ==
    <<UnwrapOr(config.cols, header.term_cols),
      UnwrapOr(config.rows, header.term_rows)>>

\* config.idle_time_limit.or(header.idle_time_limit).unwrap_or(DEFAULT_IDLE_TIME_LIMIT)
Itl ==
    UnwrapOr(OrOpt(config.idle_time_limit, header.idle_time_limit),
             DEFAULT_IDLE_TIME_LIMIT)

----------------------------------------------------------------------------
(* The terminal that frames feeds (vt::VT of the avt crate): the cursor, its *)
(* visibility and the rows changed since the last feed_str.  A text is a     *)
(* sequence of tokens: "sgr" is ESC[0m, "hide" and "show" are ESC[?25l and   *)
(* ESC[?25h, "cr" is a carriage return, any other token is a printable       *)
(* character.  The cells' contents (vt.lines()) are not modelled.            *)

\* VT::new(cols, rows); d: whether the new terminal reports its rows as changed
VTNew(size, d) ==
    [cols |-> size[1], rows |-> size[2], col |-> 0, row |-> 0, visible |-> TRUE,
     dirty |-> IF d THEN 0..(size[2] - 1) ELSE {}]

\* Printing a character: wrap (and scroll on the last row) when the previous
\* character filled the last column, then write and advance.
VTPrint(t) ==
    LET wrap == t.col >= t.cols
        scroll == wrap /\ t.row = t.rows - 1
        r == IF wrap /\ ~scroll THEN t.row + 1 ELSE t.row
        c == IF wrap THEN 0 ELSE t.col
    IN  [t EXCEPT !.col = c + 1, !.row = r,
                  !.dirty = IF scroll THEN 0..(t.rows - 1) ELSE @ \cup {r}]

VTToken(t, tok) ==
    CASE tok = "sgr" -> t
      [] tok = "hide" -> [t EXCEPT !.visible = FALSE]
      [] tok = "show" -> [t EXCEPT !.visible = TRUE]
      [] tok = "cr" -> [t EXCEPT !.col = 0]
      [] OTHER -> VTPrint(t)

RECURSIVE VTTokens(_, _)
VTTokens(t, data) ==
    IF data = <<>> THEN t ELSE VTTokens(VTToken(t, Head(data)), Tail(data))

\* vt.feed_str(&data): the terminal it leaves and the changed rows it returns
VTFeedStr(t, data) ==
    LET u == VTTokens(t, data)
    IN  [vt |-> [u EXCEPT !.dirty = {}], changed |-> u.dirty]

\* vt.cursor()
VTCursor(t) == IF t.visible THEN Some(<<t.col, t.row>>) ELSE NoneOpt

----------------------------------------------------------------------------
(* frames: the closure given to filter_map. *)

FrameWantedOnChange(changed, cursor, prev) == changed # {}

\* if !changed_lines.is_empty() || cursor != prev_cursor
FrameWanted(changed, cursor, prev) == changed # {} \/ cursor # prev

FramesPrevCursorKept(prev, cursor) == prev

\* prev_cursor = cursor; (of the branch that emits)
FramesPrevCursor(prev, cursor) == cursor

NoFrame == [time |-> Zero, cursor |-> NoneOpt, ev |-> 0]

\* One next() of the iterator frames returns, with p items of src consumed so
\* far: the items it consumes, the terminal and prev_cursor it leaves, and the
\* frame it returns (ev: the event behind it) or NoFrame at the end of src.
\* run reads the items of frames as Results (lib.rs: frame?): an error item
\* of src is returned as it is, in item.
RECURSIVE FramesCall(_, _, _, _, _)
FramesCall(src, p, t, prev, log) ==
    IF p >= Len(src)
    THEN [fpos |-> p, vt |-> t, prev_cursor |-> prev, frame |-> NoFrame,
          item |-> None, flog |-> log]
    ELSE LET it == src[p + 1]
         IN  IF ~it.ok
             THEN [fpos |-> p + 1, vt |-> t, prev_cursor |-> prev,
                   frame |-> NoFrame, item |-> it,
                   flog |-> Append(log, [changed |-> FALSE, cursor |-> prev])]
             ELSE LET r == VTFeedStr(t, it.data)
                      cursor == VTCursor(r.vt)
                      seen == Append(log, [changed |-> r.changed # {},
                                           cursor |-> cursor])
                  IN  IF FrameWanted(r.changed, cursor, prev)
                      THEN [fpos |-> p + 1, vt |-> r.vt,
                            prev_cursor |-> FramesPrevCursor(prev, cursor),
                            frame |-> [time |-> it.time, cursor |-> cursor,
                                       ev |-> p + 1],
                            item |-> it, flog |-> seen]
                      ELSE FramesCall(src, p + 1, r.vt, cursor, seen)

----------------------------------------------------------------------------
(* Strings.  A Rust String is modelled by a TLA+ string, ASCII only, so    *)
(* that a byte index is a character index.                                 *)

\* the i-th character of s (from 1), as a string of length 1
Ch(s, i) == SubSeq(s, i, i)

\* The places of s that hold the separator
SepPlaces(s, sep) == {i \in 1..Len(s) : Ch(s, i) = sep}

\* The k-th of the places from the left; 0 for k = 0, past the end after the last
SepPlace(places, k, len) ==
    IF k = 0 THEN 0
    ELSE IF k > Cardinality(places) THEN len + 1
    ELSE CHOOSE i \in places : Cardinality({j \in places : j <= i}) = k

\* s.split(sep): the pieces of s between the separators, "" included
Split(s, sep) ==
    LET places == SepPlaces(s, sep)
        len    == Len(s)
    IN  [k \in 1..(Cardinality(places) + 1) |->
            SubSeq(s, SepPlace(places, k - 1, len) + 1,
                   SepPlace(places, k, len) - 1)]

\* pieces.join(sep)
RECURSIVE Join(_, _)
Join(pieces, sep) ==
    IF pieces = <<>> THEN ""
    ELSE IF Len(pieces) = 1 THEN pieces[1]
    ELSE pieces[1] \o sep \o Join(Tail(pieces), sep)

LowerDigits == "0123456789abcdef"

UpperDigits == "0123456789ABCDEF"

\* char::to_digit(16): None for a character that is no hex digit
ToDigit(c) ==
    IF \E v \in 1..16 : Ch(LowerDigits, v) = c
    THEN Some((CHOOSE v \in 1..16 : Ch(LowerDigits, v) = c) - 1)
    ELSE IF \E v \in 1..16 : Ch(UpperDigits, v) = c
    THEN Some((CHOOSE v \in 1..16 : Ch(UpperDigits, v) = c) - 1)
    ELSE NoneOpt

\* The value of a string of hex digits, most significant first.
RECURSIVE Radix16(_, _)
Radix16(digits, acc) ==
    IF digits = "" THEN acc
    ELSE Radix16(Tail(digits), acc * 16 + UnwrapOr(ToDigit(Head(digits)), 0))

\* The largest u8
U8Max == 255

\* What from_str_radix parses after an optional sign: a leading '+' is dropped
\* (an unsigned type takes no '-').
FromStrRadixDigits(src) == IF src # "" /\ Head(src) = "+" THEN Tail(src) ELSE src

\* u8::from_str_radix(src, 16): Err (None here) for an empty string, a lone
\* sign, a character that is no hex digit, or a value above u8::MAX
FromStrRadix(src) ==
    LET digits == FromStrRadixDigits(src)
    IN  IF digits = "" THEN NoneOpt
        ELSE IF \E i \in 1..Len(digits) : ToDigit(Ch(digits, i)) = NoneOpt
        THEN NoneOpt
        ELSE IF Radix16(digits, 0) > U8Max THEN NoneOpt
        ELSE Some(Radix16(digits, 0))

\* RGB8::new(r, g, b)
RGB8(r, g, b) == [r |-> r, g |-> g, b |-> b]

\* RGB8::default()
RGB8Default == RGB8(0, 0, 0)

\* The three channels parsed from s[a..a+2], s[a+2..a+4], s[a+4..a+6] (a from
\* 0): None as soon as one of them is an Err
HexChannels(s, a) ==
    LET r == FromStrRadix(SubSeq(s, a + 1, a + 2))
        g == FromStrRadix(SubSeq(s, a + 3, a + 4))
        b == FromStrRadix(SubSeq(s, a + 5, a + 6))
    IN  IF r = NoneOpt \/ g = NoneOpt \/ b = NoneOpt THEN NoneOpt
        ELSE Some(RGB8(UnwrapOr(r, 0), UnwrapOr(g, 0), UnwrapOr(b, 0)))

\* theme.rs parse_hex_triplet: Err (None here) or the colour
ParseHexTriplet(triplet) ==
    IF Len(triplet) < 6 \/ Len(triplet) > 6 THEN NoneOpt
    ELSE HexChannels(triplet, 0)

\* The outcome of parsing a theme: a Theme, an Err, or a panic.
ThemeOk(t) == [out |-> "ok", theme |-> Some(t)]

ThemeErr == [out |-> "err", theme |-> NoneOpt]

ThemePanic == [out |-> "panic", theme |-> NoneOpt]

NotParsed == [out |-> "-", theme |-> NoneOpt]

PaletteSlotClamped(i, n) == IF i < n THEN i ELSE n - 1

\* colors.into_iter().skip(2).cycle().take(16).enumerate(): palette[i] is the
\* (i mod n)-th of the n colours after the first two
PaletteSlot(i, n) == i % n

NonEmpty(s) == s # ""

\* impl FromStr for Theme
ThemeFromStr(s) ==
    LET pieces == SelectSeq(Split(s, ","), NonEmpty)
        colors == [k \in 1..Len(pieces) |-> ParseHexTriplet(pieces[k])]
        n      == Len(colors)
    IN  IF \E k \in 1..n : colors[k] = NoneOpt THEN ThemeErr
        ELSE IF n # 10 /\ n # 18 THEN ThemeErr
        ELSE ThemeOk([background |-> UnwrapOr(colors[1], RGB8Default),
                      foreground |-> UnwrapOr(colors[2], RGB8Default),
                      palette |->
                          [i \in 0..15 |->
                              UnwrapOr(colors[3 + PaletteSlot(i, n - 2)],
                                       RGB8Default)]])

----------------------------------------------------------------------------
(* The theme embedded in a recording's header.  asciicast/v2.rs and        *)
(* asciicast/v3.rs hold the same three functions, modelled once.           *)

\* parse_hex_color: the first byte is skipped, whatever it is
ParseHexColor(rgb) ==
    IF Len(rgb) # 7 THEN NoneOpt ELSE HexChannels(rgb, 1)

IsSome(o) == o # NoneOpt

\* deserialize_palette: Err (None here) or the 16 colours
DeserializePalette(value) ==
    LET pieces == Split(value, ":")
        parsed == [k \in 1..Len(pieces) |-> ParseHexColor(pieces[k])]
        kept   == SelectSeq(parsed, IsSome)
        colors == [k \in 1..Len(kept) |-> UnwrapOr(kept[k], RGB8Default)]
    IN  IF Len(colors) = 8 THEN Some(colors \o colors)
        ELSE IF Len(colors) # 16 THEN NoneOpt
        ELSE Some(colors)

\* Deserialize for V2Theme / V3Theme (deserialize_color for fg and bg), then
\* impl From<&V2Theme> for Theme: a serde error fails the whole header
DeserializeTheme(fg, bg, palette) ==
    LET f == ParseHexColor(fg)
        b == ParseHexColor(bg)
        p == DeserializePalette(palette)
    IN  IF f = NoneOpt \/ b = NoneOpt \/ p = NoneOpt THEN ThemeErr
        ELSE ThemeOk([background |-> UnwrapOr(b, RGB8Default),
                      foreground |-> UnwrapOr(f, RGB8Default),
                      palette |->
                          [i \in 0..15 |-> UnwrapOr(p, <<>>)[i + 1]]])

\* asciicast.rs, impl TryInto<Header> for V2Header (and the same text for
\* V3Header): &s[1..] panics on an empty piece
TryIntoTheme(fg, bg, palette) ==
    IF Len(bg) = 7 /\ Len(fg) = 7 /\ (Len(palette) = 63 \/ Len(palette) = 127)
    THEN LET pieces == Split(palette, ":")
         IN  IF \E k \in 1..Len(pieces) : pieces[k] = "" THEN ThemePanic
             ELSE LET p == Join([k \in 1..Len(pieces) |-> Tail(pieces[k])], ",")
                      theme == Tail(bg) \o "," \o Tail(fg) \o "," \o p
                  IN  ThemeFromStr(theme)
    ELSE ThemeErr

----------------------------------------------------------------------------
(* The format reader.  A recording is its first line and the lines after   *)
(* it.  The first line is modelled by what serde finds in it: whether it   *)
(* is JSON and which of the fields the headers ask for are there.  A later *)
(* line is its text (enough of it to tell an empty line and a '#' line)    *)
(* and the [time, code, data] triple it spells, None when it spells none.  *)
(* Read errors (io::Error) are outside the model.                          *)

HLine(v, w, h, term, stdout) ==
    [json |-> TRUE, version |-> v, width |-> w, height |-> h, term |-> term,
     stdout |-> stdout, idle_time_limit |-> NoneOpt, theme |-> NoneOpt]

NotJson ==
    [json |-> FALSE, version |-> NoneOpt, width |-> NoneOpt, height |-> NoneOpt,
     term |-> NoneOpt, stdout |-> NoneOpt, idle_time_limit |-> NoneOpt,
     theme |-> NoneOpt]

EventLine(t, c, d) ==
    [text |-> "[]", event |-> Some([time |-> t, code |-> c, data |-> d])]

BlankLine == [text |-> "", event |-> NoneOpt]

CommentLine == [text |-> "# note", event |-> NoneOpt]

JunkLine == [text |-> "[1.0,", event |-> NoneOpt]

\* What open returns: Err (or a panic), or the parser and the header it
\* will expose
OpenErr == [ok |-> FALSE, panic |-> FALSE, schema |-> 0, header |-> NoneOpt]

OpenPanic == [ok |-> FALSE, panic |-> TRUE, schema |-> 0, header |-> NoneOpt]

OpenOk(n, cols, rows, itl, theme) ==
    [ok |-> TRUE, panic |-> FALSE, schema |-> n,
     header |-> Some([term_cols |-> cols, term_rows |-> rows,
                      term_theme |-> theme, idle_time_limit |-> itl])]

\* The header's theme as serde reads it (v2.rs, v3.rs): None without one
HeaderThemeOf(first) ==
    IF first.theme = NoneOpt THEN ThemeOk(RGB8Default)
    ELSE LET t == UnwrapOr(first.theme, <<>>)
         IN  DeserializeTheme(t.fg, t.bg, t.palette)

\* ... and as try_into reads it (asciicast.rs)
HeaderThemeInto(first) ==
    IF first.theme = NoneOpt THEN ThemeOk(RGB8Default)
    ELSE LET t == UnwrapOr(first.theme, <<>>)
         IN  TryIntoTheme(t.fg, t.bg, t.palette)

\* Option<Theme> of the header
TermTheme(first, parsed) ==
    IF first.theme = NoneOpt THEN NoneOpt ELSE parsed.theme

\* asciicast/v2.rs open and Parser::parse, with theme what serde made of the
\* header's theme
V2Header(first, theme) ==
    IF ~first.json \/ first.version = NoneOpt \/ first.width = NoneOpt
       \/ first.height = NoneOpt
    THEN OpenErr
    ELSE IF theme.out # "ok" THEN OpenErr
    ELSE IF UnwrapOr(first.version, 0) # 2 THEN OpenErr
    ELSE OpenOk(2, UnwrapOr(first.width, 0), UnwrapOr(first.height, 0),
                first.idle_time_limit, TermTheme(first, theme))

\* asciicast/v2.rs open, and the Header that Parser::parse builds
V2Open(first) == V2Header(first, HeaderThemeOf(first))

\* asciicast/v3.rs open and Parser::parse, with theme what serde made of the
\* header's theme
V3Header(first, theme) ==
    IF ~first.json \/ first.version = NoneOpt \/ first.term = NoneOpt
    THEN OpenErr
    ELSE IF theme.out # "ok" THEN OpenErr
    ELSE IF UnwrapOr(first.version, 0) # 3 THEN OpenErr
    ELSE OpenOk(3, UnwrapOr(first.term, <<>>).cols,
                UnwrapOr(first.term, <<>>).rows, first.idle_time_limit,
                TermTheme(first, theme))

\* asciicast/v3.rs open, and the Header that Parser::parse builds
V3Open(first) == V3Header(first, HeaderThemeOf(first))

\* asciicast/v1.rs load, up to the header
V1Open(first) ==
    IF ~first.json \/ first.version = NoneOpt \/ first.width = NoneOpt
       \/ first.height = NoneOpt \/ first.stdout = NoneOpt
    THEN OpenErr
    ELSE IF UnwrapOr(first.version, 0) # 1 THEN OpenErr
    ELSE OpenOk(1, UnwrapOr(first.width, 0), UnwrapOr(first.height, 0), NoneOpt,
                NoneOpt)

\* asciicast.rs open: .and_then(|v| v.get("version")...).unwrap_or(2)
DetectVersion(first) ==
    IF first.json THEN UnwrapOr(first.version, 2) ELSE 2

\* asciicast.rs open: the V3Header for version 3, the V2Header (which has no
\* version field) for everything else; theme is what try_into makes of the
\* header's theme
OpenHeader(first, theme) ==
    IF DetectVersion(first) = 3
    THEN IF first.term = NoneOpt THEN OpenErr
         ELSE IF theme.out = "panic" THEN OpenPanic
         ELSE IF theme.out # "ok" THEN OpenErr
         ELSE OpenOk(3, UnwrapOr(first.term, <<>>).cols,
                     UnwrapOr(first.term, <<>>).rows, first.idle_time_limit,
                     TermTheme(first, theme))
    ELSE IF ~first.json \/ first.width = NoneOpt \/ first.height = NoneOpt
         THEN OpenErr
         ELSE IF theme.out = "panic" THEN OpenPanic
         ELSE IF theme.out # "ok" THEN OpenErr
         ELSE OpenOk(2, UnwrapOr(first.width, 0), UnwrapOr(first.height, 0),
                     first.idle_time_limit, TermTheme(first, theme))

\* asciicast.rs open
Open(first) == OpenHeader(first, HeaderThemeInto(first))

\* What one line gives: no item (None), or Some(item); the parser's prev_time after it
Parsed(item, prev) == [item |-> item, prev_time |-> prev]

\* serde_json::from_str::<V2Event> / <V3Event> with deserialize_code: Err
\* for a line that spells no triple and for the code ""
ParseError(line) ==
    line.event = NoneOpt \/ UnwrapOr(line.event, <<>>).code = ""

\* asciicast/v2.rs parse_event
V2ParseEvent(line, prev) ==
    IF ParseError(line) THEN Parsed(Some(Err(1)), prev)
    ELSE LET event == UnwrapOr(line.event, <<>>)
         IN  IF event.code = "o"
             THEN Parsed(Some(Ok(event.time, event.data)), prev)
             ELSE Parsed(NoneOpt, prev)

\* asciicast/v2.rs parse_line
V2ParseLine(line, prev) ==
    IF line.text = "" THEN Parsed(NoneOpt, prev) ELSE V2ParseEvent(line, prev)

V3PrevTimeOfOutput(code, prev, time) == IF code = "o" THEN time ELSE prev

\* self.prev_time = time, whatever the event's code
V3PrevTime(code, prev, time) == time

V3PrevTimeAfterError(line, prev) ==
    IF line.event # NoneOpt THEN RAdd(prev, UnwrapOr(line.event, <<>>).time) ELSE prev

\* The ? on a record that does not parse returns before prev_time is assigned
V3PrevTimeOnError(line, prev) == prev

\* asciicast/v3.rs Parser::parse_event
V3ParseEvent(line, prev) ==
    IF ParseError(line) THEN Parsed(Some(Err(1)), V3PrevTimeOnError(line, prev))
    ELSE LET event == UnwrapOr(line.event, <<>>)
             time  == RAdd(prev, event.time)
         IN  IF event.code = "o"
             THEN Parsed(Some(Ok(time, event.data)),
                         V3PrevTime(event.code, prev, time))
             ELSE Parsed(NoneOpt, V3PrevTime(event.code, prev, time))

\* asciicast/v3.rs Parser::parse_line
V3ParseLine(line, prev) ==
    IF line.text = "" \/ Head(line.text) = "#" THEN Parsed(NoneOpt, prev)
    ELSE V3ParseEvent(line, prev)

\* asciicast/v1.rs load: the scan over the stdout array
V1Scan(event, prev) ==
    Parsed(Some(Ok(RAdd(prev, event.time), event.data)), RAdd(prev, event.time))

\* asciicast.rs: an Event with its type, or an Error
OkEvent(t, type, d) ==
    [ok |-> TRUE, time |-> t, data |-> d, err |-> 0, type_ |-> type]

ErrEvent(e) == [ok |-> FALSE, time |-> Zero, data |-> <<>>, err |-> e, type_ |-> "-"]

\* asciicast.rs parse_event, parse_event_v3: the match on value[1].as_str()
EventTypeOf(code) ==
    IF code = "o" THEN "Output" ELSE IF code = "i" THEN "Input" ELSE "Other"

\* asciicast.rs open: the filter in front of parse_event and parse_event_v3
OpenFilter(line) == line.text # "" /\ Head(line.text) # "#"

\* asciicast.rs parse_event
ParseEvent(line, prev) ==
    IF ParseError(line) THEN Parsed(Some(ErrEvent(1)), prev)
    ELSE LET event == UnwrapOr(line.event, <<>>)
         IN  Parsed(Some(OkEvent(event.time, EventTypeOf(event.code), event.data)),
                    prev)

\* asciicast.rs parse_event_v3
ParseEventV3(line, prev) ==
    IF ParseError(line) THEN Parsed(Some(ErrEvent(1)), V3PrevTimeOnError(line, prev))
    ELSE LET event == UnwrapOr(line.event, <<>>)
             time  == RAdd(prev, event.time)
         IN  Parsed(Some(OkEvent(time, EventTypeOf(event.code), event.data)), time)

\* What the parser chosen at open makes of one line
ParseLineOf(entry, schema, line, prev) ==
    IF entry = "v2" THEN V2ParseLine(line, prev)
    ELSE IF entry = "v3" THEN V3ParseLine(line, prev)
    ELSE IF entry = "v1" THEN V1Scan(line, prev)
    ELSE IF ~OpenFilter(line) THEN Parsed(NoneOpt, prev)
    ELSE IF schema = 3 THEN ParseEventV3(line, prev)
    ELSE ParseEvent(line, prev)

\* One next() of the events iterator (lines.filter_map(parse_line), or the
\* filter and map of asciicast.rs, or v1's scan) from line p on: the lines it
\* consumed, the item it yields (NoneOpt at the end) and the line it came from
RECURSIVE ReadCall(_, _, _, _, _)
ReadCall(entry, schema, lines, p, prev) ==
    IF p >= Len(lines) THEN [pos |-> p, prev_time |-> prev, item |-> NoneOpt]
    ELSE LET r == ParseLineOf(entry, schema, lines[p + 1], prev)
         IN  IF r.item = NoneOpt
             THEN ReadCall(entry, schema, lines, p + 1, r.prev_time)
             ELSE [pos |-> p + 1, prev_time |-> r.prev_time, item |-> r.item]

----------------------------------------------------------------------------
(* The state before anything ran. *)

Fresh ==
    /\ pos = 0
    /\ idle = Idle0
    /\ bat = Bat0
    /\ out = <<>>
    /\ nones = 0
    /\ pend = Pend0
    /\ folds = <<>>
    /\ groups = <<>>

\* let mut vt = VT::new(...); let mut prev_cursor = None;
FreshFrames ==
    /\ prev_cursor = NoneOpt
    /\ fpos = 0
    /\ frs = <<>>
    /\ flog = <<>>
    /\ collector = <<>>

NoFrames ==
    /\ vt = VTNew(TerminalSize, FALSE)
    /\ FreshFrames
    /\ pc = "-"

frameVars == <<vt, prev_cursor, fpos, frs, flog, collector, pc>>

batchVars == <<bat, nones, pend, folds, groups>>

\* No theme is parsed, no recording is read, no thread is started.
NoThemes == th = "-"

NoReader == cast = "-" /\ rd = "-"

NoThreads == sys = "-" /\ enc = "-" /\ ret = "-"

NoRenderer == rend = "-"

restVars == <<th, cast, rd, sys, enc, ret, rend>>

----------------------------------------------------------------------------
(* limit_idle_time on its own: one step is one next() of the mapped iterator. *)

InitIdle ==
    /\ NoRenderer
    /\ input \in Streams(IdleTimes, {<<>>, TextA}) \cup {IdleExample}
    /\ header = Header0
    /\ config \in {[Config0 EXCEPT !.idle_time_limit = Some(l)] : l \in Limits}
    /\ Fresh
    /\ NoThemes /\ NoReader /\ NoThreads
    /\ NoFrames

IdleNext ==
    /\ pos < Len(input)
    /\ LET r == IdleMap(idle, input[pos + 1], Itl)
       IN  /\ idle' = r.st
           /\ out' = Append(out, r.item)
    /\ pos' = pos + 1
    /\ UNCHANGED restVars
    /\ UNCHANGED <<input, header, config, batchVars, frameVars>>

SpecIdle == InitIdle /\ [][IdleNext]_vars

(* accelerate on its own. *)

InitAccel ==
    /\ NoRenderer
    /\ input \in Streams(IdleTimes, {<<>>, TextA})
    /\ header = Header0
    /\ config \in {[Config0 EXCEPT !.speed = s] : s \in Speeds}
    /\ Fresh
    /\ NoThemes /\ NoReader /\ NoThreads
    /\ NoFrames

AccelNext ==
    /\ pos < Len(input)
    /\ out' = Append(out, AccelMap(input[pos + 1], config.speed))
    /\ pos' = pos + 1
    /\ UNCHANGED restVars
    /\ UNCHANGED <<input, header, config, idle, batchVars, frameVars>>

SpecAccel == InitAccel /\ [][AccelNext]_vars

(* batch on its own: one step is one call of Batch::next, also after it has *)
(* returned None.                                                           *)

\* (a recording may hold a negative or a decreasing time)
BatchTimes == {Rat(-1, 1), Zero, Rat(33, 1000), Rat(66, 1000), One}

\* tests::batch, second and third input (texts shortened to one token)
BatchExample ==
    <<Ok(Zero, TextA), Ok(Rat(33, 1000), TextB), Ok(Rat(66, 1000), TextA),
      Ok(One, TextB)>>

BatchExampleEmpty == <<Ok(Zero, <<>>), Ok(One, TextA), Ok(Rat(2, 1), TextB)>>

InitBatch ==
    /\ NoRenderer
    /\ input \in Streams(BatchTimes, {<<>>, TextA, TextB})
                     \cup {BatchExample, BatchExampleEmpty}
    /\ header = Header0
    /\ config \in {[Config0 EXCEPT !.fps_cap = c] : c \in Caps}
    /\ Fresh
    /\ NoThemes /\ NoReader /\ NoThreads
    /\ NoFrames

BatchNext ==
    /\ nones < MaxNone
    /\ LET r == BatchCall(input, pos, bat, MaxFrameTime(config.fps_cap),
                          [pend |-> pend, folds |-> folds])
       IN  /\ pos' = r.pos
           /\ bat' = r.bat
           /\ pend' = r.pend
           /\ folds' = r.folds
           /\ IF r.item = None
              THEN /\ nones' = nones + 1
                   /\ UNCHANGED <<out, groups>>
              ELSE /\ out' = Append(out, r.item)
                   /\ groups' = Append(groups, r.group)
                   /\ UNCHANGED nones
    /\ UNCHANGED restVars
    /\ UNCHANGED <<input, header, config, idle, frameVars>>

SpecBatch == InitBatch /\ [][BatchNext]_vars

(* frames on its own, over events (no error items): one step is one next()  *)
(* of the iterator it returns.                                              *)

EventStreams(T, X) == SeqsUpTo({Ok(t, x) : t \in T, x \in X}, MaxLen)

FrameTexts ==
    {<<>>, <<"sgr">>, <<"a">>, <<"a", "b", "a">>, <<"hide">>, <<"show">>, <<"cr">>}

\* tests::frames: foo, ESC[0m, bar, !
FramesExample ==
    <<Ok(Zero, <<"f", "o", "o">>), Ok(One, <<"sgr">>),
      Ok(Rat(2, 1), <<"b", "a", "r">>), Ok(Rat(3, 1), <<"!">>)>>

InitFrames ==
    /\ NoRenderer
    /\ input \in EventStreams({Zero, One}, FrameTexts) \cup {FramesExample}
    /\ header = Header0
    /\ config = Config0
    /\ Fresh
    /\ NoThemes /\ NoReader /\ NoThreads
    /\ vt \in {VTNew(TerminalSize, d) : d \in BOOLEAN}
    /\ FreshFrames
    /\ pc = "-"

FramesNext ==
    /\ nones < MaxNone
    /\ LET r == FramesCall(input, fpos, vt, prev_cursor, flog)
       IN  /\ fpos' = r.fpos
           /\ vt' = r.vt
           /\ prev_cursor' = r.prev_cursor
           /\ flog' = r.flog
           /\ IF r.frame = NoFrame
              THEN nones' = nones + 1 /\ UNCHANGED frs
              ELSE frs' = Append(frs, r.frame) /\ UNCHANGED nones
    /\ UNCHANGED restVars
    /\ UNCHANGED <<input, pos, header, config, idle, bat, out, pend, folds,
                   groups, collector, pc>>

SpecFrames == InitFrames /\ [][FramesNext]_vars

----------------------------------------------------------------------------
(* run: the event pipeline, the frames and the hand-over to the encoder.    *)

\* iter::once(Ok((0.0, "".to_owned()))).chain(events)
Chained == <<Ok(Zero, <<>>)>> \o input

\* limit_idle_time over a whole stream: the items it yields from the state st
RECURSIVE LimitIdleTime(_, _, _)
LimitIdleTime(items, lim, st) ==
    IF items = <<>> THEN <<>>
    ELSE LET r == IdleMap(st, Head(items), lim)
         IN  <<r.item>> \o LimitIdleTime(Tail(items), lim, r.st)

\* ... and the state its closure is left in
RECURSIVE IdleStateAfter(_, _, _)
IdleStateAfter(items, lim, st) ==
    IF items = <<>> THEN st
    ELSE IdleStateAfter(Tail(items), lim, IdleMap(st, Head(items), lim).st)

\* accelerate over a whole stream
Accelerate(items, s) == [k \in 1..Len(items) |-> AccelMap(items[k], s)]

RunEventsScaledFirst ==
    LimitIdleTime(Accelerate(Chained, config.speed), Itl, Idle0)

\* let events = events::limit_idle_time(events, itl);
\* let events = events::accelerate(events, config.speed);
\* the stream that events::batch(events, config.fps_cap) pulls from
RunEvents == Accelerate(LimitIdleTime(Chained, Itl, Idle0), config.speed)

FrameIndexOfEvent(yielded, consumed) == consumed - 1

\* frames.enumerate(): the index counts the items frames has yielded
FrameIndex(yielded, consumed) == yielded

\* let time = if i == 0 { 0.0 } else { time }; time + config.last_frame_duration
Pts(i, time, lfd) == RAdd(IF i = 0 THEN Zero ELSE time, lfd)

RunTimes == {Rat(-1, 1), Rat(1, 100), One, Rat(7, 1)}

RunTexts == {<<>>, <<"a">>, <<"sgr">>}

\* The events of tests::frames as a recording, and one with an idle gap
RunExamples ==
    {FramesExample,
     <<Ok(One, <<"a">>), Ok(Rat(7, 1), <<"sgr">>), Ok(Rat(15, 1), <<"a">>),
       Ok(Rat(76, 5), <<"a">>)>>}

Init ==
    /\ NoRenderer
    /\ input \in SeqsUpTo({Ok(t, x) : t \in RunTimes, x \in RunTexts} \cup {Err(1)},
                          MaxRunLen) \cup RunExamples
    /\ header \in {Header0, [Header0 EXCEPT !.idle_time_limit = Some(Rat(2, 1))]}
    /\ config \in {[Config0 EXCEPT !.speed = Rat(2, 1)],
                   [Config0 EXCEPT !.speed = Rat(1, 2),
                                   !.idle_time_limit = Some(One)]}
    /\ Fresh
    /\ NoThemes /\ NoReader /\ NoThreads
    /\ vt \in {VTNew(TerminalSize, d) : d \in BOOLEAN}
    /\ FreshFrames
    /\ pc = "collect"

\* let events = events.collect::<Vec<_>>(): one next() of the batch iterator,
\* which pulls through accelerate and limit_idle_time
RunCollect ==
    /\ pc = "collect"
    /\ LET r == BatchCall(RunEvents, pos, bat, MaxFrameTime(config.fps_cap),
                          [pend |-> pend, folds |-> folds])
       IN  /\ pos' = r.pos
           /\ idle' = IdleStateAfter(SubSeq(Chained, 1, r.pos), Itl, Idle0)
           /\ bat' = r.bat
           /\ pend' = r.pend
           /\ folds' = r.folds
           /\ IF r.item = None
              THEN /\ nones' = nones + 1
                   /\ pc' = "render"
                   /\ UNCHANGED <<out, groups>>
              ELSE /\ out' = Append(out, r.item)
                   /\ groups' = Append(groups, r.group)
                   /\ UNCHANGED <<nones, pc>>
    /\ UNCHANGED restVars
    /\ UNCHANGED <<input, header, config, vt, prev_cursor, fpos, frs, flog,
                   collector>>

\* for (i, frame) in frames.enumerate() { ... }: one turn of the loop, with a
\* frame (rendered and handed to the collector) or with an error (frame?)
RunFrame ==
    /\ pc = "render"
    /\ LET r == FramesCall(out, fpos, vt, prev_cursor, flog)
           i == FrameIndex(Len(frs), r.fpos)
       IN  /\ r.item # None
           /\ fpos' = r.fpos
           /\ vt' = r.vt
           /\ prev_cursor' = r.prev_cursor
           /\ flog' = r.flog
           /\ IF r.item.ok
              THEN /\ frs' = Append(frs, r.frame)
                   /\ collector' =
                          Append(collector,
                                 [i |-> i,
                                  pts |-> Pts(i, r.frame.time,
                                              config.last_frame_duration)])
                   /\ UNCHANGED pc
              ELSE /\ pc' = "failed"
                   /\ UNCHANGED <<frs, collector>>
    /\ UNCHANGED restVars
    /\ UNCHANGED <<input, pos, header, config, idle, out, batchVars>>

\* The loop ends: frames has no further frame.
RunFinish ==
    /\ pc = "render"
    /\ LET r == FramesCall(out, fpos, vt, prev_cursor, flog)
       IN  /\ r.item = None
           /\ fpos' = r.fpos
           /\ vt' = r.vt
           /\ prev_cursor' = r.prev_cursor
           /\ flog' = r.flog
    /\ pc' = "done"
    /\ UNCHANGED restVars
    /\ UNCHANGED <<input, pos, header, config, idle, out, batchVars, frs,
                   collector>>

Next == RunCollect \/ RunFrame \/ RunFinish

Spec == Init /\ [][Next]_vars

----------------------------------------------------------------------------
(* Theme parsing on its own: one step parses the theme definition th holds. *)

MaxTriplets == 19

MaxEntries == 17

\* Two hex digits for v
Pair(v) == Ch(LowerDigits, (v \div 16) + 1) \o Ch(LowerDigits, (v % 16) + 1)

\* A well-formed triplet for the k-th place, another one in every place
Triplet(k) == Pair(k) \o Pair(k + 32) \o Pair(k + 64)

TripletVariants == {"", "00000", "0000000", "xxxxxx", "+f+f+f", "FFAA00", "foo"}

\* n triplets, the p-th of them replaced by v (p = 0: none is)
TripletsWith(n, p, v) == [k \in 1..n |-> IF k = p THEN v ELSE Triplet(k)]

\* The strings of tests::parse_invalid, parse_8_color_palette and
\* parse_16_color_palette
ThemeTestsInvalid ==
    {"", "foo", "000000,111111,222222,333333,444444",
     "xxxxxx,111111,222222,333333,444444,555555,666666,777777,888888,999999"}

Theme8Example ==
    "bbbbbb,ffffff,000000,111111,222222,333333,444444,555555,666666,777777"

Theme16Example ==
    "bbbbbb,ffffff,000000,111111,222222,333333,444444,555555,666666,777777,888888,999999,aaaaaa,bbbbbb,cccccc,dddddd,eeeeee,ffffff"

ThemeStrings ==
    UNION {{Join(TripletsWith(n, p, v), ",") : p \in 0..n, v \in TripletVariants} :
           n \in 0..MaxTriplets}
    \cup ThemeTestsInvalid \cup {Theme8Example, Theme16Example}

EntryVariants ==
    {"", "#00000", "x000000", "#gggggg", "zz", "#+f+f+f", "#0000::"}

EntriesWith(n, p, v) == [k \in 1..n |-> IF k = p THEN v ELSE "#" \o Triplet(k)]

Palettes ==
    UNION {{Join(EntriesWith(n, p, v), ":") : p \in 0..n, v \in EntryVariants} :
           n \in 0..MaxEntries}

\* fg and bg
Grounds ==
    {<<"#cccccc", "#121314">>, <<"xcccccc", "#121314">>,
     <<"#cccccc", "#12131">>, <<"#cccccc", "#gggggg">>}

InitTheme ==
    /\ NoRenderer
    /\ th \in {[src |-> "str", s |-> s, fg |-> "", bg |-> "", palette |-> "",
                res |-> NotParsed] : s \in ThemeStrings}
         \cup {[src |-> e, s |-> "", fg |-> g[1], bg |-> g[2], palette |-> p,
                res |-> NotParsed] :
               e \in {"v2", "v3", "asciicast"}, g \in Grounds, p \in Palettes}
    /\ input = <<>>
    /\ header = Header0
    /\ config = Config0
    /\ Fresh
    /\ NoFrames
    /\ NoReader
    /\ NoThreads

otherVars == <<input, pos, header, config, idle, out, batchVars, frameVars>>

\* s.parse::<Theme>()
ThemeParse ==
    /\ th.src = "str"
    /\ th.res = NotParsed
    /\ th' = [th EXCEPT !.res = ThemeFromStr(th.s)]
    /\ UNCHANGED <<otherVars, cast, rd, sys, rend, enc, ret>>

\* serde_json::from_str::<V2Header> / <V3Header> on a header with a theme
HeaderTheme ==
    /\ th.src \in {"v2", "v3"}
    /\ th.res = NotParsed
    /\ th' = [th EXCEPT !.res = DeserializeTheme(th.fg, th.bg, th.palette)]
    /\ UNCHANGED <<otherVars, cast, rd, sys, rend, enc, ret>>

\* v2_header.try_into() / v3_header.try_into() in asciicast.rs
HeaderTryInto ==
    /\ th.src = "asciicast"
    /\ th.res = NotParsed
    /\ th' = [th EXCEPT !.res = TryIntoTheme(th.fg, th.bg, th.palette)]
    /\ UNCHANGED <<otherVars, cast, rd, sys, rend, enc, ret>>

ThemeNext == ThemeParse \/ HeaderTheme \/ HeaderTryInto

SpecTheme == InitTheme /\ [][ThemeNext]_vars

----------------------------------------------------------------------------
(* The format reader on its own: open, then one step per next() of the      *)
(* events iterator.  rd.entry is the function the recording is given to.    *)

MaxLines == 3

Term42 == Some([cols |-> 4, rows |-> 2])

\* A v2 header and a v3 header as they should be
V2HeaderLine == HLine(Some(2), Some(4), Some(2), NoneOpt, NoneOpt)

V3HeaderLine == HLine(Some(3), NoneOpt, NoneOpt, Term42, NoneOpt)

\* The stdout arrays of the v1 recordings
V1Stdouts ==
    SeqsUpTo({[time |-> t, data |-> <<"a">>] : t \in {Rat(123, 100), Rat(-1, 1)}}, 2)

\* Embedded themes: one of 8 colours, one of 7, one with an empty entry
HeaderThemes ==
    {[fg |-> "#cccccc", bg |-> "#121314", palette |-> Join(EntriesWith(n, p, v), ":")] :
         <<n, p, v>> \in {<<8, 0, "">>, <<7, 0, "">>, <<8, 8, "#0000::">>}}

\* First lines with another version, without a version, without a field,
\* with a theme
OddHeaderLines ==
    {HLine(v, Some(4), Some(2), NoneOpt, NoneOpt) : v \in {NoneOpt, Some(1), Some(3), Some(4)}}
    \cup {HLine(v, NoneOpt, NoneOpt, Term42, NoneOpt) : v \in {NoneOpt, Some(2), Some(4)}}
    \cup {HLine(Some(2), Some(4), NoneOpt, NoneOpt, NoneOpt),
          HLine(Some(3), NoneOpt, NoneOpt, NoneOpt, NoneOpt),
          NotJson}
    \cup {[h EXCEPT !.theme = Some(t)] :
              h \in {V2HeaderLine, V3HeaderLine}, t \in HeaderThemes}

\* The lines after the header: the two events of tests::open_v3_minimal_in_memory,
\* an input event, a step back in time, an empty code, an empty line, a
\* comment, and a line that is no event
CastLines ==
    {EventLine(Rat(123, 100), "o", <<"a">>), EventLine(Rat(77, 100), "o", <<"b">>),
     EventLine(Rat(77, 100), "i", <<"a">>), EventLine(Rat(-1, 1), "o", <<"a">>),
     EventLine(One, "", <<"a">>), BlankLine, CommentLine, JunkLine}

Cast(first, lines) == [first |-> first, lines |-> lines]

Casts ==
    {Cast(h, l) : h \in {V2HeaderLine, V3HeaderLine}, l \in SeqsUpTo(CastLines, MaxLines)}
    \cup {Cast(h, l) : h \in OddHeaderLines,
                       l \in {<<>>, <<EventLine(Rat(123, 100), "o", <<"a">>)>>}}
    \cup {Cast(HLine(Some(v), Some(4), Some(2), NoneOpt, Some(s)), <<>>) :
              v \in {1, 2}, s \in V1Stdouts}

Rd0(entry) ==
    [entry |-> entry, opened |-> "-", schema |-> 0, prev_time |-> Zero,
     from |-> <<>>]

InitReader ==
    /\ NoRenderer
    /\ cast \in Casts
    /\ rd \in {Rd0(e) : e \in {"asciicast", "v1", "v2", "v3"}}
    /\ input = <<>>
    /\ header = Header0
    /\ config = Config0
    /\ Fresh
    /\ NoFrames
    /\ NoThemes
    /\ NoThreads

\* What the entry point makes of the first line
OpenOf(entry, first) ==
    IF entry = "v2" THEN V2Open(first)
    ELSE IF entry = "v3" THEN V3Open(first)
    ELSE IF entry = "v1" THEN V1Open(first)
    ELSE Open(first)

\* The lines the events iterator reads: v1 has its events in the stdout array
LinesOf(entry, c) ==
    IF entry = "v1" THEN UnwrapOr(c.first.stdout, <<>>) ELSE c.lines

\* asciicast::open / v2::open / v3::open / v1::load on the first line
ReaderOpen ==
    /\ rd.opened = "-"
    /\ LET r == OpenOf(rd.entry, cast.first)
       IN  /\ rd' = [rd EXCEPT !.opened = IF r.ok THEN "ok"
                                           ELSE IF r.panic THEN "panic"
                                           ELSE "err",
                               !.schema = r.schema]
           /\ header' = UnwrapOr(r.header, header)
    /\ UNCHANGED <<input, pos, config, idle, out, batchVars, frameVars>>
    /\ UNCHANGED <<th, cast, sys, rend, enc, ret>>

\* events.next()
ReaderNext ==
    /\ rd.opened = "ok"
    /\ nones < MaxNone
    /\ LET r == ReadCall(rd.entry, rd.schema, LinesOf(rd.entry, cast), pos,
                         rd.prev_time)
       IN  /\ pos' = r.pos
           /\ IF r.item = NoneOpt
              THEN /\ nones' = nones + 1
                   /\ rd' = [rd EXCEPT !.prev_time = r.prev_time]
                   /\ UNCHANGED out
              ELSE /\ out' = Append(out, UnwrapOr(r.item, None))
                   /\ rd' = [rd EXCEPT !.prev_time = r.prev_time,
                                       !.from = Append(@, r.pos)]
                   /\ UNCHANGED nones
    /\ UNCHANGED <<input, header, config, idle, bat, pend, folds, groups, frameVars>>
    /\ UNCHANGED <<th, cast, sys, rend, enc, ret>>

ReaderSteps == ReaderOpen \/ ReaderNext

SpecReader == InitReader /\ [][ReaderSteps]_vars

----------------------------------------------------------------------------
(* run as a whole: the recording is opened, the events are collected, the   *)
(* fonts, the theme and the encoder are set up, and the frames are rendered *)
(* and handed to the encoder while the writer thread writes them out.       *)
(*                                                                          *)
(* gifski is a library: its Collector and Writer are modelled by what run   *)
(* relies on.  add_frame_rgba queues a frame, waits while the queue is      *)
(* full, and fails once the Writer is gone; Writer::write takes frames off  *)
(* the queue until the Collector is dropped and the queue is empty, or      *)
(* fails on the way (an I/O error on output).                               *)

MaxCastLines == 2

frameVarsButPc == <<vt, prev_cursor, fpos, frs, flog, collector>>

\* The frames gifski queues before add_frame_rgba waits
QueueCap == 1

\* fonts.rs find_font_family: the family a query for the name finds
FindFontFamily(db, name) == IF name \in db THEN Some(name) ELSE NoneOpt

RECURSIVE TrimStart(_)
TrimStart(s) == IF s # "" /\ Head(s) = " " THEN TrimStart(Tail(s)) ELSE s

RECURSIVE TrimEnd(_)
TrimEnd(s) ==
    IF s # "" /\ Ch(s, Len(s)) = " " THEN TrimEnd(SubSeq(s, 1, Len(s) - 1)) ELSE s

\* str::trim
Trim(s) == TrimEnd(TrimStart(s))

\* if let Some(name) = find_font_family(..) { if !families.contains(&name) { push } }
AddFallback(db, families, name) ==
    IF FindFontFamily(db, name) # NoneOpt
       /\ ~\E k \in 1..Len(families) : families[k] = name
    THEN Append(families, name)
    ELSE families

\* fonts.rs init, with db the faces of the system and of font_dirs: None, or
\* the families selected
FontsInit(db, font_family) ==
    LET names    == Split(font_family, ",")
        found    == SelectSeq([k \in 1..Len(names) |->
                                  FindFontFamily(db, Trim(names[k]))], IsSome)
        families == [k \in 1..Len(found) |-> UnwrapOr(found[k], "")]
    IN  IF families = <<>> THEN NoneOpt
        ELSE Some(AddFallback(db, AddFallback(db, families, "DejaVu Sans"),
                              "Noto Emoji"))

InvalidTerminalSizeBoth(h) == h.term_cols = 0 /\ h.term_rows = 0

\* if header.term_cols == 0 || header.term_rows == 0
InvalidTerminalSize(h) == h.term_cols = 0 \/ h.term_rows = 0

\* lib.rs Theme: a built-in one, Custom(String), Embedded(theme::Theme)
BuiltIn(name) == [kind |-> name, def |-> ""]

Custom(s) == [kind |-> "Custom", def |-> s]

Embedded(t) == [kind |-> "Embedded", def |-> t]

\* impl TryFrom<Theme> for theme::Theme: the definitions of the built-in themes
BuiltInThemes ==
    [Asciinema |->
       "121314,cccccc,000000,dd3c69,4ebf22,ddaf3c,26b0d7,b954e1,54e1b9,d9d9d9,4d4d4d,dd3c69,4ebf22,ddaf3c,26b0d7,b954e1,54e1b9,ffffff",
     Dracula |->
       "282a36,f8f8f2,21222c,ff5555,50fa7b,f1fa8c,bd93f9,ff79c6,8be9fd,f8f8f2,6272a4,ff6e6e,69ff94,ffffa5,d6acff,ff92df,a4ffff,ffffff",
     GithubDark |->
       "171b21,eceff4,0e1116,f97583,a2fca2,fabb72,7db4f9,c4a0f5,1f6feb,eceff4,6a737d,bf5a64,7abf7a,bf8f57,608bbf,997dbf,195cbf,b9bbbf",
     GithubLight |->
       "eceff4,171b21,0e1116,f97583,a2fca2,fabb72,7db4f9,c4a0f5,1f6feb,eceff4,6a737d,bf5a64,7abf7a,bf8f57,608bbf,997dbf,195cbf,b9bbbf",
     Kanagawa |->
       "1f1f28,dcd7ba,16161d,c34043,76946a,c0a36e,7e9cd8,957fb8,6a9589,c8c093,727169,e82424,98bb6c,e6c384,7fb4ca,938aa9,7aa89f,dcd7ba",
     KanagawaDragon |->
       "181616,c5c9c5,0d0c0c,c4746e,8a9a7b,c4b28a,8ba4b0,a292a3,8ea4a2,c8c093,a6a69c,e46876,87a987,e6c384,7fb4ca,938aa9,7aa89f,c5c9c5",
     KanagawaLight |->
       "f2ecbc,545464,1f1f28,c84053,6f894e,77713f,4d699b,b35b79,597b75,545464,8a8980,d7474b,6e915f,836f4a,6693bf,624c83,5e857a,43436cg",
     Monokai |->
       "272822,f8f8f2,272822,f92672,a6e22e,f4bf75,66d9ef,ae81ff,a1efe4,f8f8f2,75715e,f92672,a6e22e,f4bf75,66d9ef,ae81ff,a1efe4,f9f8f5",
     Nord |->
       "2e3440,eceff4,3b4252,bf616a,a3be8c,ebcb8b,81a1c1,b48ead,88c0d0,eceff4,3b4252,bf616a,a3be8c,ebcb8b,81a1c1,b48ead,88c0d0,eceff4",
     SolarizedDark |->
       "002b36,839496,073642,dc322f,859900,b58900,268bd2,d33682,2aa198,eee8d5,002b36,cb4b16,586e75,657b83,839496,6c71c4,93a1a1,fdf6e3",
     SolarizedLight |->
       "fdf6e3,657b83,073642,dc322f,859900,b58900,268bd2,d33682,2aa198,eee8d5,002b36,cb4b16,586e75,657c83,839496,6c71c4,93a1a1,fdf6e3",
     GruvboxDark |->
       "fbf1c7,282828,282828,cc241d,98971a,d79921,458588,b16286,689d6a,a89984,7c6f64,fb4934,b8bb26,fabd2f,83a598,d3869b,8ec07c,fbf1c7"]

\* impl TryFrom<Theme> for theme::Theme
ThemeTryFrom(theme) ==
    IF theme.kind = "Custom" THEN ThemeFromStr(theme.def)
    ELSE IF theme.kind = "Embedded" THEN ThemeOk(theme.def)
    ELSE ThemeFromStr(BuiltInThemes[theme.kind])

\* config.theme.or_else(|| header.term_theme.map(Theme::Embedded))
\*     .unwrap_or(Theme::Dracula)
ThemeOpt ==
    IF config.theme # NoneOpt THEN UnwrapOr(config.theme, <<>>)
    ELSE IF header.term_theme # NoneOpt
    THEN Embedded(UnwrapOr(header.term_theme, <<>>))
    ELSE BuiltIn("Dracula")

\* The whole stream of the events iterator
RECURSIVE ReadAll(_, _, _, _, _)
ReadAll(entry, schema, lines, p, prev) ==
    LET r == ReadCall(entry, schema, lines, p, prev)
    IN  IF r.item = NoneOpt THEN <<>>
        ELSE <<UnwrapOr(r.item, None)>>
             \o ReadAll(entry, schema, lines, r.pos, r.prev_time)

\* events.collect::<Vec<_>>(): Batch::next until it returns None
RECURSIVE CollectFrom(_, _, _)
CollectFrom(src, mft, st) ==
    LET r == BatchCall(src, st.pos, st.bat, mft,
                       [pend |-> st.pend, folds |-> st.folds])
    IN  IF r.item = None
        THEN [st EXCEPT !.pos = r.pos, !.bat = r.bat, !.pend = r.pend,
                        !.folds = r.folds]
        ELSE CollectFrom(src, mft,
                         [pos |-> r.pos, bat |-> r.bat, pend |-> r.pend,
                          folds |-> r.folds, out |-> Append(st.out, r.item),
                          groups |-> Append(st.groups, r.group)])

\* gifski::new(settings): the collector, and the writer not yet on its thread
Enc0 ==
    [collector |-> "alive", writer |-> "new", queue |-> 0, written |-> 0,
     joined |-> FALSE, res |-> "-"]

NoEnc ==
    [collector |-> "-", writer |-> "-", queue |-> 0, written |-> 0,
     joined |-> FALSE, res |-> "-"]

\* The machines run is started on: the font families found there, and whether
\* gifski::new succeeds
Machines ==
    {[fonts |-> f, gifski |-> g] :
        f \in {{}, {"Fira Code"}, {"Menlo", "DejaVu Sans"}}, g \in BOOLEAN}

GoodMachine == [fonts |-> {"Menlo", "DejaVu Sans"}, gifski |-> TRUE]

\* The lines of the recordings run is given: two output events 1.23 s apart,
\* one that folds into its predecessor, and a line that is no event
RunLines ==
    {EventLine(Rat(123, 100), "o", <<"a">>), EventLine(Rat(1, 100), "o", <<"sgr">>),
     JunkLine}

RunHeaderLines ==
    {V2HeaderLine, V3HeaderLine,
     [V2HeaderLine EXCEPT !.width = Some(0)],
     [V3HeaderLine EXCEPT !.term = Some([cols |-> 4, rows |-> 0])]}

RunThemes == {NoneOpt, Some(Custom("foo")), Some(Custom(Theme8Example))}

\* The cols and rows overrides of the configuration
RunOverrides == {NoneOpt, Some(0), Some(3)}

OneEvent == <<EventLine(Rat(123, 100), "o", <<"a">>)>>

\* run's arguments and the machine: every recording on a machine where the
\* setup succeeds, every setup with a recording of one event, every built-in
\* theme, and every override of the size (what the avt terminal does with a
\* size of zero is not modelled: those recordings have no output)
RunSetups ==
    {[cast |-> Cast(h, l), theme |-> NoneOpt, sys |-> GoodMachine,
      cols |-> NoneOpt, rows |-> NoneOpt] :
        h \in {V2HeaderLine, V3HeaderLine}, l \in SeqsUpTo(RunLines, MaxCastLines)}
    \cup {[cast |-> Cast(h, OneEvent), theme |-> t, sys |-> m,
           cols |-> NoneOpt, rows |-> NoneOpt] :
        h \in RunHeaderLines \cup {NotJson}, t \in RunThemes, m \in Machines}
    \cup {[cast |-> Cast(V2HeaderLine, OneEvent), theme |-> Some(BuiltIn(n)),
           sys |-> GoodMachine, cols |-> NoneOpt, rows |-> NoneOpt] :
        n \in DOMAIN BuiltInThemes}
    \cup {[cast |-> Cast(h, <<>>), theme |-> NoneOpt, sys |-> GoodMachine,
           cols |-> c, rows |-> r] :
        h \in RunHeaderLines, c \in RunOverrides, r \in RunOverrides}

InitRun ==
    /\ NoRenderer
    /\ \E s \in RunSetups :
           /\ cast = s.cast
           /\ config = [Config0 EXCEPT !.theme = s.theme, !.cols = s.cols,
                                       !.rows = s.rows]
           /\ sys = s.sys
    /\ rd \in {Rd0(e) : e \in {"v2", "v3"}}
    /\ input = <<>>
    /\ header = Header0
    /\ Fresh
    /\ vt = VTNew(<<Header0.term_cols, Header0.term_rows>>, FALSE)
    /\ FreshFrames
    /\ NoThemes
    /\ enc = NoEnc
    /\ ret = "-"
    /\ pc = "open"

\* return Err(e) / Ok(()) from run
Return(e) == pc' = "returned" /\ ret' = e

\* let Asciicast { header, events, .. } = asciicast::open(input)?;
OpenCast ==
    /\ pc = "open"
    /\ LET r == OpenOf(rd.entry, cast.first)
       IN  IF r.ok
           THEN /\ rd' = [rd EXCEPT !.opened = "ok", !.schema = r.schema]
                /\ header' = UnwrapOr(r.header, header)
                /\ input' = ReadAll(rd.entry, r.schema, cast.lines, 0, Zero)
                /\ pc' = "size"
                /\ UNCHANGED ret
           ELSE /\ rd' = [rd EXCEPT !.opened = "err"]
                /\ Return("open")
                /\ UNCHANGED <<header, input>>
    /\ UNCHANGED <<pos, config, idle, out, batchVars, vt, prev_cursor, fpos, frs,
                   flog, collector, th, cast, sys, rend, enc>>

\* if header.term_cols == 0 || header.term_rows == 0 { return Err(..) }
CheckSize ==
    /\ pc = "size"
    /\ IF InvalidTerminalSize(header)
       THEN Return("size")
       ELSE pc' = "collect" /\ UNCHANGED ret
    /\ UNCHANGED <<input, pos, header, config, idle, out, batchVars, frameVarsButPc,
                   th, cast, rd, sys, rend, enc>>

\* let events = events.collect::<Vec<_>>(); let frames = vt::frames(..);
Collect ==
    /\ pc = "collect"
    /\ LET r == CollectFrom(RunEvents, MaxFrameTime(config.fps_cap),
                            [pos |-> pos, bat |-> bat, pend |-> pend,
                             folds |-> folds, out |-> out, groups |-> groups])
       IN  /\ pos' = r.pos
           /\ idle' = IdleStateAfter(Chained, Itl, Idle0)
           /\ bat' = r.bat
           /\ pend' = r.pend
           /\ folds' = r.folds
           /\ out' = r.out
           /\ groups' = r.groups
    /\ nones' = nones + 1
    /\ \E d \in BOOLEAN : vt' = VTNew(TerminalSize, d)
    /\ pc' = "fonts"
    /\ UNCHANGED <<input, header, config, prev_cursor, fpos, frs, flog, collector,
                   restVars>>

\* fonts::init(&config.font_dirs, &config.font_family).ok_or_else(..)?
InitFonts ==
    /\ pc = "fonts"
    /\ IF FontsInit(sys.fonts, config.font_family) = NoneOpt
       THEN Return("fonts")
       ELSE pc' = "theme" /\ UNCHANGED ret
    /\ UNCHANGED <<input, pos, header, config, idle, out, batchVars, frameVarsButPc,
                   th, cast, rd, sys, rend, enc>>

\* theme: theme_opt.try_into()?
SelectTheme ==
    /\ pc = "theme"
    /\ th' = [src |-> ThemeOpt.kind, res |-> ThemeTryFrom(ThemeOpt)]
    /\ IF ThemeTryFrom(ThemeOpt).out # "ok"
       THEN Return("theme")
       ELSE pc' = "gifski" /\ UNCHANGED ret
    /\ UNCHANGED <<input, pos, header, config, idle, out, batchVars, frameVarsButPc,
                   cast, rd, sys, rend, enc>>

\* let (collector, writer) = gifski::new(settings)?;
NewEncoder ==
    /\ pc = "gifski"
    /\ IF sys.gifski
       THEN enc' = Enc0 /\ pc' = "spawn" /\ UNCHANGED ret
       ELSE Return("gifski") /\ UNCHANGED enc
    /\ UNCHANGED <<input, pos, header, config, idle, out, batchVars, frameVarsButPc,
                   th, cast, rd, sys, rend>>

\* let writer_handle = s.spawn(move || { .. writer.write(output, &mut pr) });
Spawn ==
    /\ pc = "spawn"
    /\ enc' = [enc EXCEPT !.writer = "running"]
    /\ pc' = "render"
    /\ UNCHANGED <<input, pos, header, config, idle, out, batchVars, frameVarsButPc,
                   th, cast, rd, sys, rend, ret>>

\* The failed item is skipped and the loop goes on
Skip(e) == UNCHANGED <<pc, enc>>

\* What the closure given to thread::scope returns with; Ok is "ok"
Leave(e) == pc' = "left" /\ enc' = [enc EXCEPT !.res = e]

\* One turn of for (i, frame) in frames.enumerate(): frame? returns the
\* error; the frame is rendered; add_frame_rgba queues it, waits for room in
\* the queue, or fails when the writer is gone
RenderFrame ==
    /\ pc = "render"
    /\ LET r == FramesCall(out, fpos, vt, prev_cursor, flog)
           i == FrameIndex(Len(frs), r.fpos)
       IN  /\ r.item # None
           /\ (r.item.ok /\ enc.writer = "running") => enc.queue < QueueCap
           /\ fpos' = r.fpos
           /\ vt' = r.vt
           /\ prev_cursor' = r.prev_cursor
           /\ flog' = r.flog
           /\ IF ~r.item.ok
              THEN /\ Leave("event")
                   /\ UNCHANGED <<frs, collector>>
              ELSE /\ frs' = Append(frs, r.frame)
                   /\ IF enc.writer = "running"
                      THEN /\ collector' =
                                  Append(collector,
                                         [i |-> i,
                                          pts |-> Pts(i, r.frame.time,
                                                      config.last_frame_duration)])
                           /\ enc' = [enc EXCEPT !.queue = @ + 1]
                           /\ UNCHANGED pc
                      ELSE /\ Leave("add_frame")
                           /\ UNCHANGED collector
    /\ UNCHANGED <<input, pos, header, config, idle, out, batchVars, th, cast, rd,
                   sys, ret, rend>>

\* The loop ends; drop(collector);
DropCollector ==
    /\ pc = "render"
    /\ LET r == FramesCall(out, fpos, vt, prev_cursor, flog)
       IN  /\ r.item = None
           /\ fpos' = r.fpos
           /\ vt' = r.vt
           /\ prev_cursor' = r.prev_cursor
           /\ flog' = r.flog
    /\ enc' = [enc EXCEPT !.collector = "dropped"]
    /\ pc' = "join"
    /\ UNCHANGED <<input, pos, header, config, idle, out, batchVars, frs, collector,
                   th, cast, rd, sys, rend, ret>>

\* writer_handle.join().unwrap()?; Result::<()>::Ok(())
JoinWriter ==
    /\ pc = "join"
    /\ enc.writer \in {"ok", "failed"}
    /\ pc' = "left"
    /\ enc' = [enc EXCEPT !.joined = TRUE,
                          !.res = IF enc.writer = "ok" THEN "ok" ELSE "writer"]
    /\ UNCHANGED <<input, pos, header, config, idle, out, batchVars, frameVarsButPc,
                   th, cast, rd, sys, rend, ret>>

CapturesKept(c) == c

\* The closure has returned: what it captured by value and still owns, the
\* collector, is dropped
CapturesDropped(c) == "dropped"

\* thread::scope after the closure: its captures are dropped, every thread
\* spawned in the scope is waited for, and })?; returns the closure's error
LeaveScope ==
    /\ pc = "left"
    /\ enc.collector = "alive"
    /\ enc' = [enc EXCEPT !.collector = CapturesDropped(@)]
    /\ UNCHANGED <<input, pos, header, config, idle, out, batchVars, frameVars,
                   th, cast, rd, sys, rend, ret>>

EndScope ==
    /\ pc = "left"
    /\ enc.collector = "dropped"
    /\ enc.writer \in {"ok", "failed"}
    /\ enc' = [enc EXCEPT !.joined = TRUE]
    /\ Return(enc.res)
    /\ UNCHANGED <<input, pos, header, config, idle, out, batchVars, frameVarsButPc,
                   th, cast, rd, sys, rend>>

\* The writer thread, in writer.write: it takes a frame off the queue
WriterTake ==
    /\ enc.writer = "running"
    /\ enc.queue > 0
    /\ enc' = [enc EXCEPT !.queue = @ - 1, !.written = @ + 1]
    /\ UNCHANGED <<input, pos, header, config, idle, out, batchVars, frameVars,
                   th, cast, rd, sys, rend, ret>>

\* ... it fails, and the thread ends with the error
WriterFail ==
    /\ enc.writer = "running"
    /\ enc' = [enc EXCEPT !.writer = "failed", !.queue = 0]
    /\ UNCHANGED <<input, pos, header, config, idle, out, batchVars, frameVars,
                   th, cast, rd, sys, rend, ret>>

\* ... the collector is dropped and the queue is empty: write returns Ok
WriterFinish ==
    /\ enc.writer = "running"
    /\ enc.queue = 0
    /\ enc.collector = "dropped"
    /\ enc' = [enc EXCEPT !.writer = "ok"]
    /\ UNCHANGED <<input, pos, header, config, idle, out, batchVars, frameVars,
                   th, cast, rd, sys, rend, ret>>

MainThread ==
    \/ OpenCast \/ CheckSize \/ Collect \/ InitFonts \/ SelectTheme \/ NewEncoder
    \/ Spawn \/ RenderFrame \/ DropCollector \/ JoinWriter \/ LeaveScope \/ EndScope

WriterThread == WriterTake \/ WriterFail \/ WriterFinish

RunNext == MainThread \/ WriterThread

SpecRun == InitRun /\ [][RunNext]_vars

\* The steps of the main thread inside thread::scope
ScopeSteps == RenderFrame \/ DropCollector \/ JoinWriter \/ LeaveScope \/ EndScope

\* Inside the scope both threads are scheduled: a step that stays possible
\* is taken.  Nothing makes the writer fail.
FairSpecRun ==
    SpecRun /\ WF_vars(ScopeSteps) /\ WF_vars(WriterTake \/ WriterFinish)

----------------------------------------------------------------------------
(* The renderer: text_attrs (renderer.rs), Theme::color (theme.rs), and the *)
(* fontdue renderer (renderer/fontdue.rs) with adjust_pen (main.rs).  The   *)
(* image is modelled with one pixel per cell and a glyph's bitmap with one  *)
(* coverage byte: the geometry of the image and the shapes of the glyphs    *)
(* are outside the model.                                                   *)

\* How many times render is called on one renderer
MaxRenders == 2

\* avt::Color (vt::Color in main.rs): Indexed(u8) or RGB
Indexed(n) == [kind |-> "Indexed", n |-> n, rgb |-> RGB8Default]

RGBColor(c) == [kind |-> "RGB", n |-> 0, rgb |-> c]

\* A u8 after an operation that wraps
U8(x) == x % 256

\* A u16 after an operation that wraps
U16(x) == x % 65536

DimOrEight(n) == n <= 8

\* if n < 8
Dim(n) == n < 8

\* if flag { if let Some(Color::Indexed(n)) = color { if n < 8 {
\*     color = Some(Color::Indexed(n + 8)); } } }
Brighten(color, flag) ==
    IF flag /\ color # NoneOpt /\ UnwrapOr(color, <<>>).kind = "Indexed"
       /\ Dim(UnwrapOr(color, <<>>).n)
    THEN Some(Indexed(U8(UnwrapOr(color, <<>>).n + 8)))
    ELSE color

\* cursor.map_or(false, |cursor| cursor.0 == col && cursor.1 == row)
AtCursor(cursor, col, row) == cursor = Some(<<col, row>>)

InverseOrCursor(inverse, at) == inverse \/ at

\* pen.is_inverse() ^ inverse
InverseXor(inverse, at) == inverse # at

\* text_attrs: if pen.is_inverse() ^ inverse { .. }
TextAttrsSwap(fg, bg, swap, theme) ==
    IF swap
    THEN [foreground |-> Some(UnwrapOr(bg, RGBColor(theme.background))),
          background |-> Some(UnwrapOr(fg, RGBColor(theme.foreground)))]
    ELSE [foreground |-> fg, background |-> bg]

\* renderer.rs text_attrs
TextAttrs(pen, cursor, col, row, theme) ==
    [bold |-> pen.bold, faint |-> pen.faint, italic |-> pen.italic,
     underline |-> pen.underline]
    @@ TextAttrsSwap(Brighten(pen.foreground, pen.bold),
                     Brighten(pen.background, pen.blink),
                     InverseXor(pen.inverse, AtCursor(cursor, col, row)), theme)

\* adjust_pen: if pen.inverse { .. }
AdjustPenSwap(pen) ==
    IF pen.inverse
    THEN [pen EXCEPT !.foreground = Some(UnwrapOr(pen.background, Indexed(0))),
                     !.background = Some(UnwrapOr(pen.foreground, Indexed(7)))]
    ELSE pen

\* main.rs adjust_pen: the pen's inverse is toggled at the cursor first
AdjustPen(pen, cursor, x, y) ==
    AdjustPenSwap([pen EXCEPT !.inverse = InverseXor(@, AtCursor(cursor, x, y)),
                              !.foreground = Brighten(@, pen.bold),
                              !.background = Brighten(@, pen.blink)])

\* let mut r = ((n / d) % 6) * 40; if r > 0 { r += 55; }
CubeChannel(n, d) ==
    IF U8(((n \div d) % 6) * 40) > 0
    THEN U8(U8(((n \div d) % 6) * 40) + 55)
    ELSE 0

\* 16..=231: the colour of the 6x6x6 cube, n = color - 16
CubeColor(n) == RGB8(CubeChannel(n, 36), CubeChannel(n, 6), CubeChannel(n, 1))

GrayLevelBy11(n) == U8(8 + U8(11 * n))

\* 232..: let v = 8 + 10 * (color - 232), n = color - 232
GrayLevel(n) == U8(8 + U8(10 * n))

\* theme.rs Theme::color
ThemeColor(theme, color) ==
    IF color <= 15 THEN theme.palette[color]
    ELSE IF color <= 231 THEN CubeColor(U8(color - 16))
    ELSE RGB8(GrayLevel(U8(color - 232)), GrayLevel(U8(color - 232)),
              GrayLevel(U8(color - 232)))

\* renderer/fontdue.rs color_to_rgb: the arms 0 to 15
FontduePalette ==
    <<RGB8(0, 0, 0), RGB8(221, 60, 105), RGB8(78, 191, 34), RGB8(221, 175, 60),
      RGB8(38, 176, 215), RGB8(185, 84, 225), RGB8(84, 225, 185),
      RGB8(217, 217, 217), RGB8(77, 77, 77), RGB8(221, 60, 105),
      RGB8(78, 191, 34), RGB8(221, 175, 60), RGB8(38, 176, 215),
      RGB8(185, 84, 225), RGB8(84, 225, 185), RGB8(255, 255, 255)>>

\* renderer/fontdue.rs color_to_rgb
ColorToRgb(c) ==
    IF c.kind = "RGB" THEN c.rgb
    ELSE IF c.n <= 15 THEN FontduePalette[c.n + 1]
    ELSE IF c.n <= 231 THEN CubeColor(U8(c.n - 16))
    ELSE RGB8(GrayLevel(U8(c.n - 232)), GrayLevel(U8(c.n - 232)),
              GrayLevel(U8(c.n - 232)))

\* ((bg as u16) * (255 - v) / 256) as u8 + ((fg as u16) * v / 256) as u8
Blend(bg, fg, v) ==
    U8(U8(U16(bg * U16(255 - v)) \div 256) + U8(U16(fg * v) \div 256))

\* RGBA8::new(.., .., .., 255) of the three channels
BlendRGB(bg, fg, v) ==
    RGB8(Blend(bg.r, fg.r, v), Blend(bg.g, fg.g, v), Blend(bg.b, fg.b, v))

\* vec![RGBA8::new(0x12, 0x13, 0x14, 255); width * height]
ClearColor == RGB8(18, 19, 20)

\* .unwrap_or_else(|| vt::Color::RGB(0xcc, 0xcc, 0xcc))
DefaultForeground == RGBColor(RGB8(204, 204, 204))

\* font.rasterize_indexed / emoji_font.rasterize: the coverage byte of the
\* glyph, which the font on the machine decides: one font draws nothing
\* where the pixel is, another covers it half, or fully when bold
Coverage(font, key) ==
    IF font = "thin" THEN 0 ELSE IF key[2] THEN 255 ELSE 128

CachedNever(cache, key) == FALSE

\* The entry of the key is occupied
Cached(cache, key) == key \in DOMAIN cache

\* self.cache.entry((*t, a.bold, a.italic)).or_insert_with(|| ..): the n-th
\* bitmap rasterized by this renderer is given the id n
CacheEntry(st, key, font) ==
    IF Cached(st.cache, key) THEN st
    ELSE [st EXCEPT !.cache = (key :> [id |-> Len(st.rasterized) + 1,
                                        v |-> Coverage(font, key)]) @@ @,
                    !.rasterized = Append(@, key)]

\* if let Some(c) = a.background { .. buf[..] = c; }: the pixel of the cell
PaintBackground(a) ==
    IF a.background # NoneOpt THEN ColorToRgb(UnwrapOr(a.background, <<>>))
    ELSE ClearColor

\* The two loops over the bitmap: buf[idx] = c
GlyphDrawn(st, key, bg, fg) ==
    [st EXCEPT !.buf = Append(@, BlendRGB(bg, fg, st.cache[key].v)),
               !.looked = Append(@, [key |-> key, id |-> st.cache[key].id])]

\* The body of the loop over the characters, after adjust_pen
RenderAdjusted(st, t, a, font) ==
    IF t = " " THEN [st EXCEPT !.buf = Append(@, PaintBackground(a))]
    ELSE GlyphDrawn(CacheEntry(st, <<t, a.bold, a.italic>>, font),
                    <<t, a.bold, a.italic>>, PaintBackground(a),
                    ColorToRgb(UnwrapOr(a.foreground, DefaultForeground)))

\* for (cx, (t, mut a)) in chars.iter().enumerate()
RECURSIVE RenderChars(_, _, _, _, _, _)
RenderChars(st, chars, cx, cy, cursor, font) ==
    IF cx >= Len(chars) THEN st
    ELSE RenderChars(RenderAdjusted(st, chars[cx + 1].t,
                                    AdjustPen(chars[cx + 1].pen, cursor, cx, cy),
                                    font),
                     chars, cx + 1, cy, cursor, font)

\* for (cy, chars) in lines.iter().enumerate()
RECURSIVE RenderLines(_, _, _, _, _)
RenderLines(st, lines, cy, cursor, font) ==
    IF cy >= Len(lines) THEN st
    ELSE RenderLines(RenderChars(st, lines[cy + 1], 0, cy, cursor, font),
                     lines, cy + 1, cursor, font)

\* impl Renderer for FontdueRenderer: render, on a fresh buf
FontdueRender(st, lines, cursor, font) ==
    RenderLines([st EXCEPT !.buf = <<>>, !.looked = <<>>], lines, 0, cursor, font)

(* The renderer's functions on their own: the state says which of them is   *)
(* called and with what.                                                    *)

\* avt::Pen (vt::Pen)
Pen(fg, bg, bold, blink, inverse) ==
    [foreground |-> fg, background |-> bg, bold |-> bold, blink |-> blink,
     inverse |-> inverse, faint |-> FALSE, italic |-> FALSE, underline |-> FALSE]

Pen0 == Pen(NoneOpt, NoneOpt, FALSE, FALSE, FALSE)

PenForegrounds ==
    {NoneOpt, Some(Indexed(1)), Some(Indexed(7)), Some(Indexed(8)),
     Some(Indexed(255)), Some(RGBColor(RGB8(1, 2, 3)))}

PenBackgrounds ==
    {NoneOpt, Some(Indexed(0)), Some(Indexed(7)), Some(Indexed(9)),
     Some(RGBColor(RGB8(4, 5, 6)))}

Pens ==
    {Pen(fg, bg, bold, blink, inverse) :
        fg \in PenForegrounds, bg \in PenBackgrounds, bold \in BOOLEAN,
        blink \in BOOLEAN, inverse \in BOOLEAN}

\* The cursor: hidden, at the cell (0, 0) the pen is applied to, elsewhere
Cursors == {NoneOpt, Some(<<0, 0>>), Some(<<1, 0>>)}

\* The theme of the renderer: the 16-colour example of theme.rs's tests
RenderTheme == UnwrapOr(ThemeFromStr(Theme16Example).theme, <<>>)

Channels == {0, 1, 18, 128, 204, 255}

Coverages == {0, 1, 128, 255}

\* The characters of a line with their pens
RenderCells ==
    {[t |-> " ", pen |-> Pen(NoneOpt, Some(Indexed(4)), FALSE, FALSE, FALSE)],
     [t |-> "a", pen |-> Pen0],
     [t |-> "a", pen |-> Pen(Some(Indexed(1)), NoneOpt, TRUE, FALSE, FALSE)]}

\* Screens of one line
RenderScreens == {<<chars>> : chars \in [1..1 -> RenderCells] \cup [1..2 -> RenderCells]}

Rend0 ==
    [call |-> "-", pen |-> Pen0, cursor |-> NoneOpt, color |-> 0,
     bg |-> 0, fg |-> 0, v |-> 0, font |-> "-",
     attrs |-> NoneOpt, adjusted |-> NoneOpt, rgb |-> NoneOpt, blended |-> NoneOpt,
     cache |-> <<>>, rasterized |-> <<>>, looked |-> <<>>, buf |-> <<>>,
     renders |-> 0]

InitRender ==
    /\ rend \in {[Rend0 EXCEPT !.call = "pen", !.pen = p, !.cursor = c] :
                     p \in Pens, c \in Cursors}
                \cup {[Rend0 EXCEPT !.call = "color", !.color = n] : n \in 0..255}
                \cup {[Rend0 EXCEPT !.call = "blend", !.bg = b, !.fg = f, !.v = v] :
                          b \in Channels, f \in Channels, v \in Coverages}
                \cup {[Rend0 EXCEPT !.call = "render", !.font = f] :
                          f \in {"thin", "regular"}}
    /\ input = <<>>
    /\ header = Header0
    /\ config = Config0
    /\ Fresh
    /\ NoFrames
    /\ NoThemes /\ NoReader /\ NoThreads

renderOthers ==
    <<input, pos, header, config, idle, out, batchVars, frameVars, th, cast, rd,
      sys, enc, ret>>

\* text_attrs(&pen, &cursor, 0, 0, &theme)
TextAttrsCall ==
    /\ rend.call = "pen"
    /\ rend.attrs = NoneOpt
    /\ rend' = [rend EXCEPT !.attrs =
                    Some(TextAttrs(rend.pen, rend.cursor, 0, 0, RenderTheme))]
    /\ UNCHANGED renderOthers

\* adjust_pen(&mut pen, &cursor, 0, 0)
AdjustPenCall ==
    /\ rend.call = "pen"
    /\ rend.adjusted = NoneOpt
    /\ rend' = [rend EXCEPT !.adjusted = Some(AdjustPen(rend.pen, rend.cursor, 0, 0))]
    /\ UNCHANGED renderOthers

\* theme.color(color)
ColorCall ==
    /\ rend.call = "color"
    /\ rend.rgb = NoneOpt
    /\ rend' = [rend EXCEPT !.rgb = Some(ThemeColor(RenderTheme, rend.color))]
    /\ UNCHANGED renderOthers

\* One channel of one pixel under a glyph
BlendCall ==
    /\ rend.call = "blend"
    /\ rend.blended = NoneOpt
    /\ rend' = [rend EXCEPT !.blended = Some(Blend(rend.bg, rend.fg, rend.v))]
    /\ UNCHANGED renderOthers

\* renderer.render(lines, cursor)
RenderCall ==
    /\ rend.call = "render"
    /\ rend.renders < MaxRenders
    /\ \E lines \in RenderScreens, cursor \in {NoneOpt, Some(<<0, 0>>)} :
           rend' = [FontdueRender(rend, lines, cursor, rend.font)
                        EXCEPT !.renders = @ + 1]
    /\ UNCHANGED renderOthers

RenderNext == TextAttrsCall \/ AdjustPenCall \/ ColorCall \/ BlendCall \/ RenderCall

SpecRender == InitRender /\ [][RenderNext]_vars

----------------------------------------------------------------------------
(* Helpers of the properties. *)

\* The indices of the events (not errors) among the first p items of s.
OkIdx(s, p) == {k \in 1..p : s[k].ok}

\* The event before event k in s, 0 when k is the first event.
PrevOk(s, k) ==
    LET before == {j \in 1..(k - 1) : s[j].ok}
    IN  IF before = {} THEN 0 ELSE CHOOSE j \in before : \A i \in before : i <= j

\* The time of the event before event k, 0.0 for the first event.
PrevOkTime(s, k) == IF PrevOk(s, k) = 0 THEN Zero ELSE s[PrevOk(s, k)].time

NonDecreasing(s) ==
    \A k \in OkIdx(s, Len(s)) :
        /\ RLe(Zero, s[k].time)
        /\ RLe(PrevOkTime(s, k), s[k].time)

\* The sum of (gap - L) over the gaps exceeding L among the gaps of the events
\* up to item k, each gap measured between original times, the first from 0.
RECURSIVE SumExcess(_, _, _)
SumExcess(s, k, lim) ==
    IF k = 0 THEN Zero
    ELSE IF ~s[k].ok THEN SumExcess(s, k - 1, lim)
    ELSE LET gap == RSub(s[k].time, PrevOkTime(s, k))
         IN  RAdd(SumExcess(s, k - 1, lim),
                  IF RLt(lim, gap) THEN RSub(gap, lim) ELSE Zero)

----------------------------------------------------------------------------
(* C1: for limit_idle_time(events, L) with L > 0 over a stream of            *)
(* non-negative, non-decreasing timestamps, two consecutive emitted          *)
(* timestamps differ by at most L, and an input gap not larger than L is     *)
(* reproduced exactly between the corresponding emitted timestamps.          *)
C1_IdleGapsClamped ==
    (RLt(Zero, Itl) /\ NonDecreasing(input)) =>
        \A k \in OkIdx(input, pos) :
            LET j == PrevOk(input, k)
            IN  j # 0 =>
                    LET gin == RSub(input[k].time, input[j].time)
                        gout == RSub(out[k].time, out[j].time)
                    IN  /\ out[k].ok /\ out[j].ok
                        /\ RLe(gout, Itl)
                        /\ RLe(gin, Itl) => gout = gin

\* Both cases have happened: a gap above the limit after an earlier clamped gap,
\* and a positive gap below it.
C1_Witness ==
    /\ RLt(Zero, Itl) /\ NonDecreasing(input) /\ pos = Len(input) /\ pos >= 3
    /\ ErrorFree(input)
    /\ RLt(Itl, RSub(input[2].time, input[1].time))
    /\ RLt(Itl, RSub(input[3].time, input[2].time))
    /\ \E k \in 2..pos :
           LET g == RSub(input[k].time, input[k - 1].time)
           IN  RLt(Zero, g) /\ RLe(g, Itl)

(* C6: limit_idle_time emits one event per input event with unchanged text,  *)
(* and the k-th emitted time is the k-th original time minus the sum of      *)
(* (gap - L) over the gaps exceeding L among the first k gaps (measured      *)
(* between original times, the first from 0); times 0,1,3.5,4,7.5 with       *)
(* L = 2.0 yield 0,1,3,3.5,5.5.                                              *)
C6_IdleClosedForm ==
    /\ Len(out) = pos
    /\ \A k \in 1..pos :
           IF input[k].ok
           THEN out[k] = Ok(RSub(input[k].time, SumExcess(input, k, Itl)),
                            input[k].data)
           ELSE out[k] = input[k]
    /\ (input = IdleExample /\ Itl = Rat(2, 1) /\ pos = 5) =>
           [k \in 1..5 |-> out[k].time]
               = <<Zero, One, Rat(3, 1), Rat(7, 2), Rat(11, 2)>>

C6_Witness ==
    /\ input = IdleExample /\ Itl = Rat(2, 1) /\ pos = 5
    /\ out[5].time = Rat(11, 2)

(* C7: accelerate(events, s) emits one item per input item in the same       *)
(* order: an event keeps its text and gets its timestamp divided by s (a     *)
(* non-decreasing input stays non-decreasing for s > 0), and an error item   *)
(* passes through unchanged.                                                 *)
C7_AccelerateScales ==
    /\ Len(out) = pos
    /\ \A k \in 1..pos :
           IF input[k].ok
           THEN /\ out[k].ok
                /\ out[k].data = input[k].data
                /\ RMul(out[k].time, config.speed) = input[k].time
           ELSE out[k] = input[k]
    /\ NonDecreasing(input) =>
           \A k \in OkIdx(input, pos) : RLe(PrevOkTime(out, k), out[k].time)

C7_Witness ==
    /\ pos = 3 /\ config.speed = Rat(2, 1)
    /\ input[1].ok /\ ~input[2].ok /\ input[3].ok
    /\ RLt(input[1].time, input[3].time)
    /\ RLt(Zero, input[1].time)
    /\ out[3].time = RDiv(input[3].time, Rat(2, 1))

----------------------------------------------------------------------------
(* Helpers of the properties of batch. *)

Cap == config.fps_cap

\* The start time of the batch that event st started; the batch that batch()
\* builds (st = 0) starts at 0.0.
StartTime(st) == IF st = 0 THEN Zero ELSE input[st].time

\* The texts of the input events ms, concatenated in the order of ms.
RECURSIVE MemberData(_)
MemberData(ms) ==
    IF ms = <<>> THEN <<>> ELSE input[Head(ms)].data \o MemberData(Tail(ms))

Increasing(ms) == \A i \in 1..(Len(ms) - 1) : ms[i] < ms[i + 1]

\* next() has returned None: the stream is drained.
Drained == nones >= 1

\* An incoming event was folded exactly when its time minus the start time of
\* the batch pending at its arrival is below 1/cap.
BatchFoldRule ==
    \A k \in 1..pos :
        input[k].ok =>
            (folds[k].folded <=>
                RLt(RSub(input[k].time, StartTime(folds[k].starter)),
                    MaxFrameTime(Cap)))

\* An emitted event carries the texts folded into it, in input order.
BatchTexts ==
    \A e \in 1..Len(out) :
        out[e].ok =>
            /\ Increasing(groups[e].members)
            /\ out[e].data = MemberData(groups[e].members)

BatchExampleHolds ==
    (input = BatchExample /\ Cap = 30 /\ Drained) =>
        out = <<Ok(Zero, TextA \o TextB), Ok(Rat(66, 1000), TextA), Ok(One, TextB)>>

(* C2 as stated: batch folds an incoming event into the pending batch        *)
(* exactly when its time minus the pending batch's start time is < 1/cap;    *)
(* an emitted event carries the concatenation, in input order, of the texts  *)
(* folded into it and the timestamp of the first input event of that batch;  *)
(* (0.0,foo),(0.033,bar),(0.066,baz),(1.0,qux) at cap 30 yields              *)
(* (0.0,foobar),(0.066,baz),(1.0,qux).                                       *)
C2_TimestampOfFirstEvent ==
    /\ BatchFoldRule
    /\ BatchTexts
    /\ BatchExampleHolds
    /\ \A e \in 1..Len(out) :
           (out[e].ok /\ groups[e].members # <<>>) =>
               out[e].time = input[groups[e].members[1]].time

(* C2 amended: as stated, but the timestamp of an emitted event is the start *)
(* time of its batch: the time of the first input event of the batch for a   *)
(* batch that an event started, and 0.0 for the batch pending before any     *)
(* event started one, whatever the times of the events folded into it.       *)
C2_TimestampOfBatchStart ==
    /\ BatchFoldRule
    /\ BatchTexts
    /\ BatchExampleHolds
    /\ \A e \in 1..Len(out) :
           out[e].ok =>
               /\ out[e].time = StartTime(groups[e].starter)
               /\ groups[e].starter # 0 =>
                      groups[e].members[1] = groups[e].starter

\* The example has run to its end: an event was folded, and a batch that an
\* event started was emitted.
C2_Witness ==
    /\ input = BatchExample /\ Cap = 30 /\ Drained /\ Len(out) = 3
    /\ folds[2].folded /\ ~folds[3].folded
    /\ groups[2].starter = 3

(* C3 as stated: batch never emits an event whose text is empty.             *)
C3_NoEmptyTextEmitted ==
    \A e \in 1..Len(out) : out[e].ok => out[e].data # <<>>

(* C3 amended: batch emits an event whose text is empty only for the batch   *)
(* pending before any event started one, with timestamp 0.0 and before any   *)
(* other event; an input event with empty text that starts a batch is never  *)
(* flushed as a batch by itself.                                             *)
C3_EmptyOnlyInitialBatch ==
    \A e \in 1..Len(out) :
        (out[e].ok /\ out[e].data = <<>>) =>
            /\ groups[e].starter = 0
            /\ out[e].time = Zero
            /\ \A d \in 1..(e - 1) : ~out[d].ok

\* An event with empty text started a batch, nothing was folded into it, the
\* next event closed it, and the stream has been drained.
C3_Witness ==
    /\ Drained
    /\ \E k \in 1..(pos - 1) :
           /\ input[k].ok /\ input[k].data = <<>> /\ ~folds[k].folded
           /\ input[k + 1].ok /\ ~folds[k + 1].folded
           /\ input[k + 1].data # <<>>

(* C4: when the pending batch starts at 0.0 and the next event arrives 1/cap *)
(* or more later, the pending batch is emitted with timestamp 0.0 even if    *)
(* its text is empty: (0.0, empty),(1.0,foo),(2.0,bar) at cap 30 is emitted  *)
(* unchanged.                                                                *)
C4_InitialBatchFlushedAtZero ==
    /\ \A k \in 1..pos :
           (input[k].ok /\ folds[k].starter = 0 /\ ~folds[k].folded) =>
               \E e \in 1..Len(out) :
                   /\ out[e].ok
                   /\ out[e].time = Zero
                   /\ groups[e].starter = 0
                   /\ \A m \in 1..(k - 1) :
                          input[m].ok <=>
                              (\E i \in 1..Len(groups[e].members) :
                                   groups[e].members[i] = m)
                   /\ out[e].data = MemberData(groups[e].members)
    /\ (input = BatchExampleEmpty /\ Cap = 30 /\ Drained) => out = input

C4_Witness ==
    /\ input = BatchExampleEmpty /\ Cap = 30 /\ Drained
    /\ Len(out) = 3 /\ out[1] = Ok(Zero, <<>>)

\* No text is lost or reordered, and a drained batch holds nothing back.
BatchKeepsText ==
    ErrorFree(input) =>
        /\ ConcatData(out) \o bat.prev_data = ConcatData(SubSeq(input, 1, pos))
        /\ \A e \in 1..Len(out) :
               /\ Increasing(groups[e].members)
               /\ \A d \in 1..(e - 1) :
                      \A i \in 1..Len(groups[d].members) :
                          \A j \in 1..Len(groups[e].members) :
                              groups[d].members[i] < groups[e].members[j]
        /\ Drained => (pos = Len(input) /\ bat.prev_data = <<>>)

(* C5: for a finite error-free input, batch emits text in input order and    *)
(* the concatenation of the emitted texts is the concatenation of the input  *)
(* texts; when the input ends a non-empty pending batch is flushed exactly   *)
(* once, after which the iterator yields nothing more.                       *)
C5_BatchKeepsAllText ==
    /\ []BatchKeepsText
    /\ [][(ErrorFree(input) /\ Drained) => out' = out]_vars

\* The stream ended with a non-empty batch pending, it was flushed, and next()
\* was called again.
C5_Witness ==
    /\ ErrorFree(input) /\ Len(input) = 3 /\ nones = 2
    /\ Len(out) >= 2
    /\ out[Len(out)].data # <<>>
    /\ \E i \in 1..Len(groups[Len(out)].members) :
           groups[Len(out)].members[i] = 3
    /\ \E k \in 1..3 : folds[k].folded

----------------------------------------------------------------------------
(* Helpers of the properties of frames. *)

\* Event k of the consumed events produced a frame.
Emitted(k) == \E i \in 1..Len(frs) : frs[i].ev = k

\* The cursor of the last frame emitted before event k, None when there is none.
LastEmittedCursor(k) ==
    LET before == {i \in 1..Len(frs) : frs[i].ev < k}
    IN  IF before = {} THEN NoneOpt
        ELSE frs[CHOOSE i \in before : \A j \in before : j <= i].cursor

(* C9: frames emits a frame for an event if and only if feeding its text to  *)
(* the terminal reports a changed row or leaves the cursor at a position     *)
(* different from the cursor of the previously emitted frame (initially no   *)
(* cursor); emitted frames carry the time of their event and come in event   *)
(* order; foo, ESC[0m, bar, ! yields exactly 3 frames with times 0, 2, 3.    *)
C9_FrameIffVisualChange ==
    /\ Len(flog) = fpos
    /\ \A k \in 1..fpos :
           Emitted(k) <=>
               (flog[k].changed \/ flog[k].cursor # LastEmittedCursor(k))
    /\ \A i \in 1..Len(frs) :
           /\ frs[i].ev \in 1..fpos
           /\ frs[i].time = input[frs[i].ev].time
           /\ frs[i].cursor = flog[frs[i].ev].cursor
           /\ i > 1 => frs[i - 1].ev < frs[i].ev
    /\ (input = FramesExample /\ fpos = 4) =>
           /\ [i \in 1..Len(frs) |-> frs[i].time] = <<Zero, Rat(2, 1), Rat(3, 1)>>
           /\ [i \in 1..Len(frs) |-> frs[i].cursor]
                  = <<Some(<<3, 0>>), Some(<<2, 1>>), Some(<<3, 1>>)>>

\* The example has run to its end, the text without visual effect gave no frame.
C9_Witness ==
    /\ input = FramesExample /\ fpos = 4 /\ nones >= 1
    /\ Len(frs) = 3 /\ ~Emitted(2) /\ Emitted(3)
    /\ ~flog[2].changed

----------------------------------------------------------------------------
(* C8: run applies idle-limit, then speed-scale, then fps-batch to the       *)
(* events after prepending the event (0.0, empty text): the stream entering  *)
(* batch is the idle-limited stream scaled, and the gap between two          *)
(* consecutive events entering batch is at most idle_time_limit / speed.     *)
C8_PipelineOrder ==
    /\ pos <= Len(RunEvents)
    /\ Len(RunEvents) = Len(input) + 1
    /\ pos >= 1 => RunEvents[1] = Ok(Zero, <<>>)
    /\ \A k \in 1..pos :
           IF Chained[k].ok
           THEN RunEvents[k]
                    = Ok(RDiv(RSub(Chained[k].time, SumExcess(Chained, k, Itl)),
                              config.speed),
                         Chained[k].data)
           ELSE RunEvents[k] = Chained[k]
    /\ \A k \in OkIdx(RunEvents, pos) :
           LET j == PrevOk(RunEvents, k)
           IN  /\ j # 0 =>
                      RLe(RSub(RunEvents[k].time, RunEvents[j].time),
                          RDiv(Itl, config.speed))
               \* batch comes last: it folds by the scaled, idle-limited times
               /\ folds[k].folded <=>
                      RLt(RSub(RunEvents[k].time,
                               IF folds[k].starter = 0 THEN Zero
                               ELSE RunEvents[folds[k].starter].time),
                          MaxFrameTime(Cap))

\* All events were collected, a gap above the limit was cut to the limit and
\* then scaled.
C8_Witness ==
    /\ pc = "render" /\ ErrorFree(input) /\ Len(input) >= 2
    /\ config.speed = Rat(2, 1)
    /\ \E k \in 2..pos :
           /\ RLt(Itl, RSub(Chained[k].time, Chained[k - 1].time))
           /\ RSub(RunEvents[k].time, RunEvents[k - 1].time)
                  = RDiv(Itl, config.speed)

(* C10: run hands the frames to the collector with the indices 0,1,2,...     *)
(* (consecutive, counting only the frames emitted) and with non-decreasing   *)
(* presentation timestamps, for every recording the reader accepts.          *)
C10_CollectorOrder ==
    /\ Len(collector) = Len(frs)
    /\ \A j \in 1..Len(collector) :
           /\ collector[j].i = j - 1
           /\ j > 1 => RLe(collector[j - 1].pts, collector[j].pts)

\* Three frames were handed over, after an event that gave no frame.
C10_Witness ==
    /\ pc = "done" /\ Len(collector) = 3
    /\ \E k \in 1..fpos : ~Emitted(k) /\ Emitted(k + 1)

----------------------------------------------------------------------------
(* The format reader. *)

\* The first line has what schema n asks for, the version field n included.
ValidatesAs(first, n) ==
    /\ first.json
    /\ first.version = Some(n)
    /\ IF n = 3 THEN first.term # NoneOpt
       ELSE first.width # NoneOpt /\ first.height # NoneOpt
    /\ n = 1 => first.stdout # NoneOpt

\* C14: a first line that validates as none of the schemas 1, 2, 3 makes
\* open fail, with no event stream; the parser of schema N reads a header
\* only if the header's version field is N.
C14_VersionSelectsParser ==
    rd.opened # "-" =>
        /\ rd.opened = "ok" => ValidatesAs(cast.first, rd.schema)
        /\ (\A n \in 1..3 : ~ValidatesAs(cast.first, n)) =>
               (rd.opened = "err" /\ out = <<>>)

\* The lines the reader in use iterates over.
ReadLines == LinesOf(rd.entry, cast)

\* The k-th line is an event record that parses (v1: an element of stdout).
IsRecord(lines, k) ==
    rd.entry = "v1"
    \/ (lines[k].event # NoneOpt /\ UnwrapOr(lines[k].event, <<>>).code # "")

\* The time field of the k-th line.
TimeField(lines, k) ==
    IF rd.entry = "v1" THEN lines[k].time ELSE UnwrapOr(lines[k].event, <<>>).time

\* The sum of the time fields of the event records among the first k lines.
RECURSIVE SumDeltas(_, _)
SumDeltas(lines, k) ==
    IF k = 0 THEN Zero
    ELSE RAdd(SumDeltas(lines, k - 1),
              IF IsRecord(lines, k) THEN TimeField(lines, k) ELSE Zero)

V3Example ==
    <<EventLine(Rat(123, 100), "o", <<"a">>), EventLine(Rat(77, 100), "o", <<"b">>)>>

\* C15: in a v3 recording and in v1's stdout array every time field is a
\* delta: an output event's timestamp is the sum of the deltas of all event
\* records parsed up to and including it, those of the filtered non-output
\* events counted (deltas 1.23 then 0.77 give 1.23 and 2.0); a v2 timestamp is
\* the time field unchanged.
C15_DeltasAccumulated ==
    /\ \A k \in 1..Len(out) :
           out[k].ok =>
               out[k].time = IF rd.schema \in {1, 3}
                             THEN SumDeltas(ReadLines, rd.from[k])
                             ELSE TimeField(ReadLines, rd.from[k])
    /\ (rd.schema = 3 /\ cast.lines = V3Example /\ Len(out) = 2) =>
           (out[1].time = Rat(123, 100) /\ out[2].time = Rat(2, 1))

\* A v3 parser has read an output event, an input event and an output event:
\* the second output event carries all three deltas.
C15_Witness ==
    /\ rd.entry = "v3"
    /\ cast.lines = <<EventLine(Rat(123, 100), "o", <<"a">>),
                      EventLine(Rat(77, 100), "i", <<"a">>),
                      EventLine(Rat(77, 100), "o", <<"b">>)>>
    /\ out = <<Ok(Rat(123, 100), <<"a">>), Ok(Rat(277, 100), <<"b">>)>>

\* An item of the stream is an output event.
IsOutputEvent(item) ==
    item.ok /\ (IF rd.entry = "asciicast" THEN item.type_ = "Output" ELSE TRUE)

\* C16: in a v2 and in a v3 recording an empty line and a line that begins
\* with '#' give no event and no error and leave the running total as it
\* is, and an event whose code is not 'o' gives no output event.
C16_SkipsBlankAndComment ==
    rd.entry \in {"v2", "v3", "asciicast"} =>
        /\ \A k \in 1..Len(out) :
               LET line == cast.lines[rd.from[k]]
               IN  /\ line.text # "" /\ Head(line.text) # "#"
                   /\ IsOutputEvent(out[k]) =>
                          UnwrapOr(line.event, <<>>).code = "o"
        /\ rd.prev_time = IF rd.schema = 3 THEN SumDeltas(cast.lines, pos) ELSE Zero

\* C17: the timestamps of the output events the reader yields never decrease,
\* for every schema and every recording it accepts.
C17_TimesNonDecreasing ==
    \A j, k \in 1..Len(out) :
        (j < k /\ IsOutputEvent(out[j]) /\ IsOutputEvent(out[k])) =>
            RLe(out[j].time, out[k].time)

----------------------------------------------------------------------------
(* Themes. *)

IsHexDigit(c) == ToDigit(c) # NoneOpt

\* exactly 6 hex digits
IsHexTriplet(t) == Len(t) = 6 /\ \A i \in 1..6 : IsHexDigit(Ch(t, i))

\* '#' followed by 6 hex digits
IsHashColor(e) == Len(e) = 7 /\ Head(e) = "#" /\ IsHexTriplet(Tail(e))

\* The value of the two hex digits of t from place a (from 1)
PairValue(t, a) ==
    16 * UnwrapOr(ToDigit(Ch(t, a)), 0) + UnwrapOr(ToDigit(Ch(t, a + 1)), 0)

\* The colour a triplet of 6 hex digits spells
ColorOf(t) == RGB8(PairValue(t, 1), PairValue(t, 3), PairValue(t, 5))

ThemeParsed == th.src = "str" /\ th.res # NotParsed

\* The comma-separated pieces are 10 or 18, each 6 hex digits.
TenOrEighteenTriplets(s) ==
    LET pieces == Split(s, ",")
    IN  /\ Len(pieces) \in {10, 18}
        /\ \A k \in 1..Len(pieces) : IsHexTriplet(pieces[k])

\* C18: Theme::from_str succeeds only for a string of exactly 10 or exactly
\* 18 comma-separated triplets of 6 hex digits each; every other string is
\* rejected with an error.
C18_OnlyTenOrEighteenTriplets ==
    ThemeParsed =>
        IF TenOrEighteenTriplets(th.s) THEN th.res.out = "ok"
        ELSE th.res.out = "err"

\* C19: a valid 18-triplet string parses to background = triplet 1,
\* foreground = triplet 2 and palette[i] = triplet i+3 for i in 0..15; a valid
\* 10-triplet string to the same background and foreground and
\* palette[i] = palette[i+8] = triplet i+3 for i in 0..7.
C19_TripletsToTheme ==
    (ThemeParsed /\ TenOrEighteenTriplets(th.s)) =>
        LET pieces == Split(th.s, ",")
            theme  == UnwrapOr(th.res.theme, <<>>)
        IN  /\ th.res.out = "ok"
            /\ theme.background = ColorOf(pieces[1])
            /\ theme.foreground = ColorOf(pieces[2])
            /\ IF Len(pieces) = 18
               THEN \A i \in 0..15 : theme.palette[i] = ColorOf(pieces[i + 3])
               ELSE \A i \in 0..7 :
                        /\ theme.palette[i] = ColorOf(pieces[i + 3])
                        /\ theme.palette[i + 8] = ColorOf(pieces[i + 3])

\* tests::parse_8_color_palette has been parsed: palette[8] is its third triplet.
C19_Witness ==
    /\ ThemeParsed
    /\ th.s = Theme8Example
    /\ th.res.out = "ok"
    /\ UnwrapOr(th.res.theme, <<>>).palette[8] = RGB8(0, 0, 0)
    /\ UnwrapOr(th.res.theme, <<>>).palette[15] = RGB8(119, 119, 119)

HeaderThemeParsed == th.src \in {"v2", "v3", "asciicast"} /\ th.res # NotParsed

\* fg and bg are '#rrggbb' and the palette is 8 or 16 colon-separated '#rrggbb'.
StrictEmbeddedTheme(fg, bg, palette) ==
    LET pieces == Split(palette, ":")
    IN  /\ IsHashColor(fg)
        /\ IsHashColor(bg)
        /\ Len(pieces) \in {8, 16}
        /\ \A k \in 1..Len(pieces) : IsHashColor(pieces[k])

\* C20: an embedded theme is accepted only if fg and bg are '#' and 6 hex
\* digits and the palette is exactly 8 or exactly 16 colon-separated '#rrggbb'
\* entries; any other palette makes header parsing fail, no entry is dropped.
C20_EmbeddedThemeStrict ==
    HeaderThemeParsed =>
        IF StrictEmbeddedTheme(th.fg, th.bg, th.palette) THEN th.res.out = "ok"
        ELSE th.res.out = "err"

----------------------------------------------------------------------------
(* run as a whole. *)

\* The writer thread has been spawned.
Spawned == enc.writer \in {"running", "ok", "failed"}

Returned == pc = "returned"

\* What run returns when it fails before the scope.
SetupErrors == {"open", "size", "fonts", "theme", "gifski"}

\* Once run has returned after the spawn: the collector is dropped, the
\* writer thread has ended and has been waited for, and run returns Ok only
\* if no event failed and the writer succeeded, with every frame written.
ScopeLeftClean ==
    (Returned /\ Spawned) =>
        /\ enc.collector = "dropped"
        /\ enc.writer \in {"ok", "failed"}
        /\ enc.joined
        /\ (ret = "ok") <=> (ErrorFree(out) /\ enc.writer = "ok")
        /\ ~ErrorFree(out) => ret \in {"event", "add_frame"}
        /\ (ErrorFree(out) /\ enc.writer = "failed") => ret \in {"writer", "add_frame"}
        /\ ret = "add_frame" => enc.writer = "failed"
        /\ ret = "ok" => (enc.written = Len(collector) /\ Len(collector) = Len(frs))

\* C11: once the writer thread is spawned, on the success path and on every
\* error path (an event error, an add_frame error, a writer error) the
\* collector is dropped and the writer thread has ended and been joined
\* before run returns; the join never blocks forever: run does return; and
\* the error is what run returns.
C11_WriterJoinedBeforeReturn ==
    /\ []ScopeLeftClean
    /\ (Spawned ~> Returned)

\* run has returned the error of an event, after the writer thread, which
\* wrote the frame it was given, ended.
C11_Witness ==
    /\ Returned
    /\ ret = "event"
    /\ enc.writer = "ok"
    /\ enc.written = 1
    /\ enc.joined

\* The first line gives a terminal of zero columns or zero rows.
ZeroSizeHeader(first) ==
    \/ first.width = Some(0)
    \/ first.height = Some(0)
    \/ (first.term # NoneOpt
        /\ (UnwrapOr(first.term, <<>>).cols = 0 \/ UnwrapOr(first.term, <<>>).rows = 0))

\* None of the names of config.font_family is a family of the machine.
NoFontFamily ==
    \A k \in 1..Len(Split(config.font_family, ",")) :
        Trim(Split(config.font_family, ",")[k]) \notin sys.fonts

\* The theme asked for is a custom one whose definition is not valid.
InvalidThemeDefinition ==
    /\ config.theme # NoneOpt
    /\ UnwrapOr(config.theme, <<>>).kind = "Custom"
    /\ ~TenOrEighteenTriplets(UnwrapOr(config.theme, <<>>).def)

SetupFails == ZeroSizeHeader(cast.first) \/ NoFontFamily \/ InvalidThemeDefinition

\* C12: with a header of zero columns or rows, with no font family found, or
\* with an invalid theme definition, run returns an error, the writer thread
\* is never spawned and no frame is rendered or handed to the encoder.
C12_SetupFailsBeforeSpawn ==
    SetupFails =>
        /\ ~Spawned
        /\ pc \notin {"spawn", "render", "join", "left"}
        /\ frs = <<>>
        /\ collector = <<>>
        /\ fpos = 0
        /\ Returned => ret \in SetupErrors

\* run has returned the theme's error: the events were collected, no frame
\* was made of them.
C12_Witness ==
    /\ Returned
    /\ ret = "theme"
    /\ InvalidThemeDefinition
    /\ Len(out) = 2
    /\ frs = <<>>
    /\ enc.writer = "-"

\* A line is an event record that does not parse.
Malformed(line) ==
    /\ line.text # ""
    /\ Head(line.text) # "#"
    /\ (line.event = NoneOpt \/ UnwrapOr(line.event, <<>>).code = "")

\* A line gives an item: a malformed record or an output event.
Yields(line) ==
    \/ Malformed(line)
    \/ (line.event # NoneOpt /\ UnwrapOr(line.event, <<>>).code = "o")

\* The reader gives an error item for every malformed record, in its place
\* among the output events.
ReaderSurfacesErrors ==
    rd.opened = "ok" =>
        LET lines == SelectSeq(cast.lines, Yields)
        IN  /\ Len(input) = Len(lines)
            /\ \A k \in 1..Len(lines) : input[k].ok <=> ~Malformed(lines[k])

\* limit_idle_time and accelerate hand an error item on as it is, in its place.
OperatorsKeepErrors ==
    /\ Len(RunEvents) = Len(Chained)
    /\ \A k \in 1..Len(Chained) : ~Chained[k].ok => RunEvents[k] = Chained[k]
    /\ \A k \in 1..Len(Chained) : Chained[k].ok => RunEvents[k].ok

\* The text of the events in front of the e-th item of out, an error, in
\* the stream the batching reads
TextBeforeInStream(e) == ConcatData(SubSeq(RunEvents, 1, groups[e].members[1] - 1))

\* ... and in what the batching has yielded
TextBeforeInOut(e) == ConcatData(SubSeq(out, 1, e - 1))

IsPrefix(s, t) == Len(s) <= Len(t) /\ SubSeq(t, 1, Len(s)) = s

Collected == pc \notin {"open", "size", "collect"}

\* batch yields as many error items as it read, each behind all the text
\* that was in front of it.
BatchKeepsErrorPlace ==
    Collected =>
        /\ Len(SelectSeq(out, LAMBDA it : ~it.ok))
               = Len(SelectSeq(RunEvents, LAMBDA it : ~it.ok))
        /\ \A e \in 1..Len(out) :
               ~out[e].ok => TextBeforeInOut(e) = TextBeforeInStream(e)

\* batch yields as many error items as it read, each as soon as it is pulled:
\* behind the batches flushed before it and ahead of the pending batch, whose
\* text comes with the next event item.
BatchYieldsErrorAtOnce ==
    Collected =>
        /\ Len(SelectSeq(out, LAMBDA it : ~it.ok))
               = Len(SelectSeq(RunEvents, LAMBDA it : ~it.ok))
        /\ \A e \in 1..Len(out) :
               ~out[e].ok =>
                   /\ IsPrefix(TextBeforeInOut(e), TextBeforeInStream(e))
                   /\ IsPrefix(TextBeforeInStream(e),
                               ConcatData(SubSeq(out, 1, e - 1)
                                          \o SelectSeq(SubSeq(out, e + 1, Len(out)),
                                                       LAMBDA it : it.ok)))
                   /\ \A d \in 1..(e - 1) :
                          out[d].ok => RLe(out[d].time,
                                           RunEvents[groups[e].members[1] - 1].time)

\* run aborts with the event's error: it does not return Ok, and it returns
\* that error unless the writer failed first.
RunAbortsOnError ==
    (Returned /\ Spawned /\ ~ErrorFree(input)) =>
        /\ ret # "ok"
        /\ enc.writer = "ok" => ret = "event"

----------------------------------------------------------------------------
(* batch: the rate of the emitted events, and what they are made of. *)

\* The events (not the error items) among the first n items of s
Events(s, n) == SelectSeq(SubSeq(s, 1, n), LAMBDA it : it.ok)

\* The places in out of the emitted events
EmittedIdx == OkIdx(out, Len(out))

\* C25: any two consecutive events emitted by batch(events, cap) have
\* timestamps that differ by at least 1/cap, for every input stream, also one
\* with decreasing or negative timestamps.
C25_EmittedAtMostCapPerSecond ==
    \A e \in EmittedIdx :
        PrevOk(out, e) # 0 =>
            RLe(MaxFrameTime(Cap), RSub(out[e].time, out[PrevOk(out, e)].time))

\* Three events were emitted from an input whose timestamps go down somewhere.
C25_Witness ==
    /\ Drained
    /\ Cardinality(EmittedIdx) >= 3
    /\ \E k \in 1..(Len(input) - 1) :
           input[k].ok /\ input[k + 1].ok /\ RLt(input[k + 1].time, input[k].time)

\* C26: batch never emits more events than it has consumed from its input,
\* and every emitted event holds at least one input event: no event is
\* fabricated, also when the first event arrives at 1/cap or later.
C26_NoEventFabricated ==
    /\ Cardinality(EmittedIdx) <= Len(Events(input, pos))
    /\ \A e \in EmittedIdx : groups[e].members # <<>>

----------------------------------------------------------------------------
(* The v3 reader and a line that does not parse. *)

\* The lines read so far, and those of them that parse
LinesRead == SubSeq(ReadLines, 1, pos)

WellFormed(line) == ~Malformed(line)

\* C29: in the v3 reader an event line that fails to parse yields an error
\* item and leaves the running time total unchanged: the events read are
\* those, timestamps included, that the reader yields when the malformed lines
\* are absent.
C29_V3ErrorKeepsRunningTime ==
    (rd.opened = "ok" /\ rd.schema = 3) =>
        /\ Len(SelectSeq(out, LAMBDA it : ~it.ok))
               = Len(SelectSeq(LinesRead, Malformed))
        /\ IsPrefix(SelectSeq(out, LAMBDA it : it.ok),
                    ReadAll(rd.entry, 3, SelectSeq(ReadLines, WellFormed), 0, Zero))
        /\ nones >= 1 =>
               SelectSeq(out, LAMBDA it : it.ok)
                   = ReadAll(rd.entry, 3, SelectSeq(ReadLines, WellFormed), 0, Zero)

\* The v3 parser has read a record with an empty code, whose time field is
\* 1.0, and then an output event: the event's timestamp is its own delta.
C29_Witness ==
    /\ rd.entry = "v3"
    /\ cast.lines = <<EventLine(One, "", <<"a">>), EventLine(Rat(123, 100), "o", <<"a">>)>>
    /\ out = <<Err(1), Ok(Rat(123, 100), <<"a">>)>>

----------------------------------------------------------------------------
(* run: the built-in themes and the size of the terminal. *)

\* A theme definition of exactly 18 well-formed triplets of 6 hex digits
EighteenTriplets(s) ==
    /\ Len(Split(s, ",")) = 18
    /\ \A k \in 1..Len(Split(s, ",")) : IsHexTriplet(Split(s, ",")[k])

BuiltInSelected ==
    config.theme # NoneOpt /\ UnwrapOr(config.theme, <<>>).kind \in DOMAIN BuiltInThemes

\* C27: every built-in theme variant converts through TryFrom to a valid
\* Theme: its definition is exactly 18 well-formed triplets of 6 hex digits,
\* and selecting it never makes run fail.
C27_BuiltInThemesValid ==
    BuiltInSelected =>
        /\ EighteenTriplets(BuiltInThemes[UnwrapOr(config.theme, <<>>).kind])
        /\ Returned => ret # "theme"

\* run has passed the check of the header's size
PastSizeCheck ==
    \/ pc \in {"collect", "fonts", "theme", "gifski", "spawn", "render", "join", "left"}
    \/ (Returned /\ ret \notin {"open", "size"})

\* C28: the terminal size that run passes to the frame synthesizer and to the
\* renderer has columns > 0 and rows > 0, whether a dimension comes from the
\* header or from the cols / rows override of the configuration.
C28_TerminalSizePositive ==
    PastSizeCheck =>
        /\ TerminalSize[1] > 0 /\ TerminalSize[2] > 0
        /\ pc # "collect" => (vt.cols > 0 /\ vt.rows > 0)

----------------------------------------------------------------------------
(* The renderer: the attributes of a cell. *)

\* The pen whose attributes are computed, and whether its cell is the cursor's
PenCalled == rend.call = "pen" /\ rend.attrs # NoneOpt

PenAtCursor == rend.cursor = Some(<<0, 0>>)

PenSwapped ==
    \/ rend.pen.inverse /\ ~PenAtCursor
    \/ ~rend.pen.inverse /\ PenAtCursor

AttrsOf == UnwrapOr(rend.attrs, <<>>)

\* C21: text_attrs swaps the foreground and the background exactly when
\* pen.inverse XOR "the cell is at the cursor" holds; a cell at the cursor
\* whose pen is inverse is not swapped; in a swapped cell an unset background
\* gives the foreground theme.background, an unset foreground gives the
\* background theme.foreground, and both colours of a swapped cell are set.
\* adjust_pen swaps under the same condition and also sets both colours.
C21_SwapIsXorWithCursor ==
    /\ PenCalled =>
          /\ PenSwapped =>
                /\ AttrsOf.foreground # NoneOpt /\ AttrsOf.background # NoneOpt
                /\ AttrsOf.foreground =
                       IF rend.pen.background = NoneOpt
                       THEN Some(RGBColor(RenderTheme.background))
                       ELSE Brighten(rend.pen.background, rend.pen.blink)
                /\ AttrsOf.background =
                       IF rend.pen.foreground = NoneOpt
                       THEN Some(RGBColor(RenderTheme.foreground))
                       ELSE Brighten(rend.pen.foreground, rend.pen.bold)
          /\ ~PenSwapped =>
                /\ AttrsOf.foreground = Brighten(rend.pen.foreground, rend.pen.bold)
                /\ AttrsOf.background = Brighten(rend.pen.background, rend.pen.blink)
    /\ (rend.call = "pen" /\ rend.adjusted # NoneOpt) =>
          /\ PenSwapped =>
                /\ UnwrapOr(rend.adjusted, <<>>).foreground # NoneOpt
                /\ UnwrapOr(rend.adjusted, <<>>).background # NoneOpt
                /\ rend.pen.background # NoneOpt =>
                       UnwrapOr(rend.adjusted, <<>>).foreground =
                           Brighten(rend.pen.background, rend.pen.blink)
                /\ rend.pen.foreground # NoneOpt =>
                       UnwrapOr(rend.adjusted, <<>>).background =
                           Brighten(rend.pen.foreground, rend.pen.bold)
          /\ ~PenSwapped =>
                /\ UnwrapOr(rend.adjusted, <<>>).foreground =
                       Brighten(rend.pen.foreground, rend.pen.bold)
                /\ UnwrapOr(rend.adjusted, <<>>).background =
                       Brighten(rend.pen.background, rend.pen.blink)

\* A pen without colours at the cursor is swapped to the theme's colours, and
\* adjust_pen has been applied to it too
C21_Witness ==
    /\ PenCalled /\ rend.adjusted # NoneOpt
    /\ PenAtCursor /\ ~rend.pen.inverse
    /\ rend.pen.foreground = NoneOpt /\ rend.pen.background = NoneOpt
    /\ AttrsOf.foreground = Some(RGBColor(RenderTheme.background))
    /\ AttrsOf.background = Some(RGBColor(RenderTheme.foreground))

\* The colour the spec expects of a colour of the pen: an index below 8 plus 8
\* under the flag, anything else as it is
Brightened(color, flag) ==
    IF flag /\ \E n \in 0..7 : color = Some(Indexed(n))
    THEN {Indexed(n + 8) : n \in {m \in 0..7 : color = Some(Indexed(m))}}
    ELSE color

\* C22: text_attrs turns an indexed foreground n into n + 8 only when the pen
\* is bold and n < 8, an indexed background n into n + 8 only when the pen is
\* blink and n < 8; RGB colours and the indices 8..255 are unchanged, the
\* brightened index is at most 15, and the brightening is done on the pen's
\* own foreground and background, before the swap.
C22_BrightenBelowEight ==
    PenCalled =>
        /\ ~PenSwapped =>
              /\ AttrsOf.foreground = Brightened(rend.pen.foreground, rend.pen.bold)
              /\ AttrsOf.background = Brightened(rend.pen.background, rend.pen.blink)
        /\ PenSwapped =>
              /\ rend.pen.foreground # NoneOpt =>
                     AttrsOf.background = Brightened(rend.pen.foreground, rend.pen.bold)
              /\ rend.pen.background # NoneOpt =>
                     AttrsOf.foreground = Brightened(rend.pen.background, rend.pen.blink)
        /\ \A c \in AttrsOf.foreground \cup AttrsOf.background :
               /\ (c.kind = "Indexed" /\ Some(c) \notin {rend.pen.foreground,
                                                         rend.pen.background})
                      => c.n <= 15
               /\ c.kind = "RGB" => Some(c) \in {rend.pen.foreground,
                                                 rend.pen.background,
                                                 Some(RGBColor(RenderTheme.foreground)),
                                                 Some(RGBColor(RenderTheme.background))}

\* A bold, blink, inverse pen with the foreground 7 and the background 9: the
\* swapped cell has the background 15 and the foreground 9
C22_Witness ==
    /\ PenCalled
    /\ rend.pen.bold /\ rend.pen.blink /\ rend.pen.inverse /\ ~PenAtCursor
    /\ rend.pen.foreground = Some(Indexed(7))
    /\ rend.pen.background = Some(Indexed(9))
    /\ AttrsOf.background = Some(Indexed(15))
    /\ AttrsOf.foreground = Some(Indexed(9))

(* The renderer: the colours of the theme. *)

\* The level of the cube: 0, 95, 135, 175, 215, 255
CubeLevel(k) == IF k = 0 THEN 0 ELSE 40 * k + 55

\* C30: Theme::color is defined for every index 0..255 and no u8 overflows:
\* 0..15 give the entry of the palette, 16..231 the colour of the 6x6x6 cube
\* with components in {0, 95, 135, 175, 215, 255}, 232..255 the gray
\* 8 + 10 * (n - 232), at most 238, on the three channels.
C30_ThemeColorTotal ==
    (rend.call = "color" /\ rend.rgb # NoneOpt) =>
        /\ rend.color \in 0..255
        /\ rend.color <= 15 => rend.rgb = Some(RenderTheme.palette[rend.color])
        /\ (rend.color >= 16 /\ rend.color <= 231) =>
              /\ rend.rgb = Some(RGB8(CubeLevel(((rend.color - 16) \div 36) % 6),
                                      CubeLevel(((rend.color - 16) \div 6) % 6),
                                      CubeLevel((rend.color - 16) % 6)))
              /\ \A c \in rend.rgb :
                     {c.r, c.g, c.b} \subseteq {0, 95, 135, 175, 215, 255}
        /\ rend.color >= 232 =>
              /\ rend.rgb = Some(RGB8(8 + 10 * (rend.color - 232),
                                      8 + 10 * (rend.color - 232),
                                      8 + 10 * (rend.color - 232)))
              /\ \A c \in rend.rgb : c.r <= 238

\* The last gray, and with C30_WitnessCube the last colour of the cube
C30_Witness ==
    rend.call = "color" /\ rend.color = 255 /\ rend.rgb = Some(RGB8(238, 238, 238))

C30_WitnessCube ==
    rend.call = "color" /\ rend.color = 231 /\ rend.rgb = Some(RGB8(255, 255, 255))

(* The renderer: a glyph on its background. *)

\* C23: a channel under a glyph is bg*(255-coverage)/255 + fg*coverage/255 in
\* integer arithmetic: the coverage 0 keeps the background and the coverage
\* 255 gives the foreground, for every value of the channel.
C23_CompositeExact ==
    (rend.call = "blend" /\ rend.blended # NoneOpt) =>
        /\ rend.blended = Some((rend.bg * (255 - rend.v)) \div 255
                               + (rend.fg * rend.v) \div 255)
        /\ rend.v = 0 => rend.blended = Some(rend.bg)
        /\ rend.v = 255 => rend.blended = Some(rend.fg)

(* The renderer: the cache of the glyphs. *)

\* The keys of the cache are those rasterized, each once, with the bitmap of
\* its first lookup; a lookup uses the stored bitmap; no key is a space
CacheKept ==
    rend.call = "render" =>
        /\ DOMAIN rend.cache = {rend.rasterized[i] : i \in DOMAIN rend.rasterized}
        /\ \A i, j \in DOMAIN rend.rasterized :
               rend.rasterized[i] = rend.rasterized[j] => i = j
        /\ \A i \in DOMAIN rend.rasterized : rend.cache[rend.rasterized[i]].id = i
        /\ \A i \in DOMAIN rend.looked :
               /\ rend.looked[i].key \in DOMAIN rend.cache
               /\ rend.looked[i].id = rend.cache[rend.looked[i].key].id
        /\ \A k \in DOMAIN rend.cache :
               /\ k[1] # " "
               /\ k \in {"a"} \X BOOLEAN \X BOOLEAN

\* A render removes no entry and leaves every entry as it is
CacheGrows ==
    rend.call = "render" =>
        /\ \A k \in DOMAIN rend.cache :
               k \in DOMAIN rend'.cache /\ rend'.cache[k] = rend.cache[k]
        /\ Len(rend'.rasterized) >= Len(rend.rasterized)
        /\ SubSeq(rend'.rasterized, 1, Len(rend.rasterized)) = rend.rasterized

\* C24: the cache of the glyphs has the keys (character, bold, italic), gets
\* an entry only at the first lookup of a key and never loses or replaces
\* one: over the calls of render each key is rasterized at most once, a later
\* lookup gives the stored bitmap, and a space makes no entry.
C24_GlyphCacheLazy == []CacheKept /\ [][CacheGrows]_vars

\* Two calls of render, the second with a space and twice the glyph that the
\* first call had rasterized
C24_Witness ==
    /\ rend.call = "render" /\ rend.renders = 2
    /\ Len(rend.rasterized) = 2
    /\ Len(rend.looked) = 1 /\ Len(rend.buf) = 2
    /\ rend.looked[1].id = 1

============================================================================
